---- MODULE Spec2Model ----
(***************************************************************************)
(* State-machine model of the tunnel server (ahmadrosid/tunnel):           *)
(*   - subdomain policy      internal/subdomain/generator.go               *)
(*   - registry              internal/tunnel/registry.go (websocket build) *)
(*   - control channel       internal/websocket/connection.go              *)
(*   - session handler       internal/websocket/handler.go                 *)
(*   - connection lifecycle  internal/websocket/server.go                  *)
(*   - proxy forwarder       internal/websocket/combined.go,               *)
(*                           internal/proxy/forwarder.go, virtual_conn.go  *)
(* Strings the code inspects character by character (subdomains, hosts)    *)
(* are sequences of one-character strings.                                 *)
(***************************************************************************)
EXTENDS Integers, Sequences, FiniteSets, TLC

\* ------------------------------------------------------------------------
\* Bounds of the model
\* ------------------------------------------------------------------------
\* total number of frames the clients send on all control channels
MaxFrames == 3
\* binary frames a control channel keeps queued
MaxQueue == 2
\* bytes a public client sends after its request head
MaxClientChunks == 1
\* calls made directly on a Registry
MaxCalls == 5

\* the client sessions (accepted /tunnel upgrades)
Sessions == {"s1", "s2"}
\* the public requests
Requests == {"r1", "r2"}

NoSession == "none"
NoLabel == << >>

\* ------------------------------------------------------------------------
\* Characters and strings
\* ------------------------------------------------------------------------
LowerLetters ==
    << "a", "b", "c", "d", "e", "f", "g", "h", "i", "j", "k", "l", "m",
       "n", "o", "p", "q", "r", "s", "t", "u", "v", "w", "x", "y", "z" >>

UpperLetters ==
    << "A", "B", "C", "D", "E", "F", "G", "H", "I", "J", "K", "L", "M",
       "N", "O", "P", "Q", "R", "S", "T", "U", "V", "W", "X", "Y", "Z" >>

Digits == << "0", "1", "2", "3", "4", "5", "6", "7", "8", "9" >>

HexDigits ==
    << "0", "1", "2", "3", "4", "5", "6", "7", "8", "9",
       "a", "b", "c", "d", "e", "f" >>

Range(f) == { f[i] : i \in DOMAIN f }

IsLowerAlnum(c) == c \in Range(LowerLetters) \cup Range(Digits)

IsSpace(c) == c \in {" ", "\t", "\n", "\r"}

\* strings.ToLower on one character
ToLowerChar(c) ==
    IF c \in Range(UpperLetters)
    THEN LowerLetters[CHOOSE i \in DOMAIN UpperLetters : UpperLetters[i] = c]
    ELSE c

\* strings.ToLower
ToLower(s) == [i \in 1..Len(s) |-> ToLowerChar(s[i])]

RECURSIVE TrimLeft(_)
TrimLeft(s) ==
    IF s # << >> /\ IsSpace(Head(s)) THEN TrimLeft(Tail(s)) ELSE s

RECURSIVE TrimRight(_)
TrimRight(s) ==
    IF s # << >> /\ IsSpace(s[Len(s)])
    THEN TrimRight(SubSeq(s, 1, Len(s) - 1))
    ELSE s

\* strings.TrimSpace
TrimSpace(s) == TrimRight(TrimLeft(s))

\* ------------------------------------------------------------------------
\* Subdomain policy (internal/subdomain/generator.go)
\* ------------------------------------------------------------------------
\* subdomain.Normalize
Normalize(s) == ToLower(TrimSpace(s))

\* the pattern without the class of the last character
validSubdomainPatternOpenEnd(s) ==
    /\ Len(s) >= 1
    /\ Len(s) <= 63
    /\ IsLowerAlnum(s[1])
    /\ \A i \in 1..Len(s) : IsLowerAlnum(s[i]) \/ s[i] = "-"

\* validSubdomainPattern: ^[a-z0-9]([a-z0-9\-]{0,61}[a-z0-9])?$
validSubdomainPattern(s) ==
    /\ Len(s) >= 1
    /\ Len(s) <= 63
    /\ IsLowerAlnum(s[1])
    /\ IsLowerAlnum(s[Len(s)])
    /\ \A i \in 1..Len(s) : IsLowerAlnum(s[i]) \/ s[i] = "-"

\* the reserved list without its first name
reservedNoWww ==
    { << "a", "p", "i" >>,
      << "a", "d", "m", "i", "n" >>, << "m", "a", "i", "l" >>,
      << "f", "t", "p" >>,
      << "l", "o", "c", "a", "l", "h", "o", "s", "t" >> }

reserved ==
    { << "w", "w", "w" >>, << "a", "p", "i" >>,
      << "a", "d", "m", "i", "n" >>, << "m", "a", "i", "l" >>,
      << "f", "t", "p" >>,
      << "l", "o", "c", "a", "l", "h", "o", "s", "t" >> }

\* an error value of the handler: fmt.Errorf(wrap + text, sub | typ)
Err(wrap, text, sub, typ) ==
    [wrap |-> wrap, text |-> text, sub |-> sub, typ |-> typ]

NoErr == Err("", "", NoLabel, "")

\* Validate without the list of reserved subdomains
ValidateNoReserved(subdomain) ==
    LET s == ToLower(subdomain) IN
    IF Len(s) < 1 \/ Len(s) > 63
    THEN Err("", "subdomain must be between 1 and 63 characters", NoLabel, "")
    ELSE IF ~validSubdomainPattern(s)
    THEN Err("", "subdomain must contain only lowercase letters, numbers, and hyphens",
             NoLabel, "")
    ELSE NoErr

\* subdomain.Validate: NoErr when the subdomain is accepted
Validate(subdomain) ==
    LET s == ToLower(subdomain) IN
    IF Len(s) < 1 \/ Len(s) > 63
    THEN Err("", "subdomain must be between 1 and 63 characters", NoLabel, "")
    ELSE IF ~validSubdomainPattern(s)
    THEN Err("", "subdomain must contain only lowercase letters, numbers, and hyphens",
             NoLabel, "")
    ELSE IF s \in reserved
    THEN Err("", "subdomain '%s' is reserved", s, "")
    ELSE NoErr

\* hex.EncodeToString
RECURSIVE HexEncode(_)
HexEncode(bytes) ==
    IF bytes = << >> THEN << >>
    ELSE << HexDigits[(Head(bytes) \div 16) + 1],
            HexDigits[(Head(bytes) % 16) + 1] >> \o HexEncode(Tail(bytes))

\* values rand.Read may put in the 4 bytes
RandBytes == { << 0, 0, 0, 10 >>, << 222, 173, 190, 239 >> }

\* subdomain.Generate: the labels it can return (rand.Read may also fail)
Generate == { HexEncode(b) : b \in RandBytes }

\* ------------------------------------------------------------------------
\* Registry (tunnel.Registry): a map subdomain -> *Tunnel
\* ------------------------------------------------------------------------
Tunnel(id, subdomain, conn) ==
    [ID |-> id, Subdomain |-> subdomain, WSConn |-> conn]

\* Registry.IsSubdomainAvailable
IsSubdomainAvailable(tunnels, subdomain) == subdomain \notin DOMAIN tunnels

\* Registry.Get: the pair (tunnel, exists)
Get(tunnels, subdomain) ==
    IF subdomain \in DOMAIN tunnels
    THEN [tunnel |-> tunnels[subdomain], exists |-> TRUE]
    ELSE [tunnel |-> Tunnel(0, NoLabel, NoSession), exists |-> FALSE]

\* Register without the "already in use" test: the new tunnel replaces the owner
RegisterOverwrite(tunnels, tunnel) ==
    [err |-> NoErr,
     tunnels |-> [k \in DOMAIN tunnels \cup {tunnel.Subdomain} |->
                     IF k = tunnel.Subdomain THEN tunnel ELSE tunnels[k]]]

\* Register that reports success for a subdomain that is taken
RegisterIgnoreTaken(tunnels, tunnel) ==
    [err |-> NoErr,
     tunnels |-> [k \in DOMAIN tunnels \cup {tunnel.Subdomain} |->
                     IF k \in DOMAIN tunnels THEN tunnels[k] ELSE tunnel]]

\* Registry.Register: the error it returns and the map it leaves
Register(tunnels, tunnel) ==
    IF tunnel.Subdomain \in DOMAIN tunnels
    THEN [err |-> Err("", "subdomain '%s' is already in use", tunnel.Subdomain, ""),
          tunnels |-> tunnels]
    ELSE [err |-> NoErr,
          tunnels |-> [k \in DOMAIN tunnels \cup {tunnel.Subdomain} |->
                          IF k = tunnel.Subdomain THEN tunnel ELSE tunnels[k]]]

\* Unregister that drops every entry
UnregisterClear(tunnels, subdomain) == << >>

\* Registry.Unregister: delete(r.tunnels, subdomain)
Unregister(tunnels, subdomain) ==
    [k \in DOMAIN tunnels \ {subdomain} |-> tunnels[k]]

\* Registry.Count
Count(tunnels) == Cardinality(DOMAIN tunnels)

\* ------------------------------------------------------------------------
\* Configuration and wire values
\* ------------------------------------------------------------------------
\* config.Domain, the served suffix
Domain == << "t", ".", "i", "o" >>

\* a control message decoded from a text frame (websocket.Message); payloadOK
\* tells whether msg.Data unmarshals into a RegisterRequest, sub is
\* RegisterRequest.Subdomain
Message(type, payloadOK, sub) == [type |-> type, payloadOK |-> payloadOK, sub |-> sub]

NoMessage == Message("", TRUE, NoLabel)

\* a label of 64 characters
LongLabel == [i \in 1..64 |-> "a"]

\* the Subdomain fields the clients put in a Register
RawSubdomains ==
    { << >>, << "a" >>, << " ", "A" >>, << "-", "a" >>, << "w", "w", "w" >>,
      LongLabel }

ClientMessages ==
    { Message("register", TRUE, sub) : sub \in RawSubdomains }
        \cup { Message("register", FALSE, << >>) }
        \cup { Message(t, TRUE, << >>) : t \in {"unregister", "ping", "data", "bogus"} }

\* payloads of binary frames
Payloads == { << 1, 2 >> }

\* errors of the underlying conn.ReadMessage: peer closed, read deadline
\* passed, frame over the read limit
TransportErrors == {"eof", "deadline", "oversize"}

\* what the underlying conn.ReadMessage returns next
Frame(kind, err, data, decodes, msg) ==
    [kind |-> kind, err |-> err, data |-> data, decodes |-> decodes, msg |-> msg]

\* the read error of a conn that was closed on this side
ClosedFrame == Frame("err", "closed", << >>, FALSE, NoMessage)

Frames ==
    { Frame("err", e, << >>, FALSE, NoMessage) : e \in TransportErrors }
        \cup { Frame("binary", "", d, FALSE, NoMessage) : d \in Payloads }
        \cup { Frame("text", "", << >>, FALSE, NoMessage) }
        \cup { Frame("text", "", << >>, TRUE, m) : m \in ClientMessages }

\* RegisterResponse (tunnel_id, subdomain, full_domain)
RegisterResponse(id, subdomain) ==
    [TunnelID |-> id, Subdomain |-> subdomain,
     FullDomain |-> subdomain \o << "." >> \o Domain]

NoData == [TunnelID |-> 0, Subdomain |-> NoLabel, FullDomain |-> NoLabel]

\* a message the server writes on the control channel
Reply(type, error, data) == [type |-> type, error |-> error, data |-> data]

Pong == Reply("pong", NoErr, NoData)

ErrorReply(e) == Reply("error", e, NoData)

SuccessReply(d) == Reply("success", NoErr, d)

NoReply == Reply("", NoErr, NoData)

\* ------------------------------------------------------------------------
\* State
\* ------------------------------------------------------------------------
VARIABLES
    registry,     \* Registry.tunnels
    pc,           \* where each session's handleConnection / HandleMessages is
    cur,          \* msg: the control message HandleMessages is handling
    sel,          \* selectedSubdomain of handleRegister
    hsub,         \* Handler.subdomain
    htid,         \* Handler.tunnelID (0 is "")
    pending,      \* the message handed to Handler.send
    sent,         \* frames written on the channel since msg was read
    writeErr,     \* the underlying conn has failed a write
    mu,           \* Connection.mu: who holds it
    binaryQueue,  \* Connection.binaryQueue
    readBuffer,   \* Connection.readBuffer
    readOffset,   \* Connection.readOffset
    exitErr,      \* the error HandleMessages returns
    readErr,      \* the read error the underlying conn has latched
    connCloses,   \* calls of Close on the underlying websocket.Conn
    uuids,        \* uuid.New() calls so far
    nframes       \* frames read from all channels so far

ctlVars ==
    << registry, pc, cur, sel, hsub, htid, pending, sent, writeErr, mu,
       binaryQueue, readBuffer, readOffset, exitErr, readErr, connCloses, uuids, nframes >>

VARIABLES
    rpc,          \* where each public request is in handleProxy and its goroutine
    rsub,         \* subdomain of handleProxy
    rtun,         \* tun of handleProxy
    resp,         \* the HTTP response written for the request
    vclosed,      \* VirtualConnection.closed of the request's tunnelConn
    c2t,          \* the copier io.Copy(conn2, conn1): client to tunnel
    t2c,          \* the copier io.Copy(conn1, conn2): tunnel to client
    c2tBuf,       \* bytes the client-to-tunnel copier has read and not written
    t2cBuf,       \* bytes the tunnel-to-client copier has read and not written
    c2tErr,       \* error of the last tunnelConn.Write (also of r.Write)
    t2cErr,       \* error of the last tunnelConn.Read
    clientCloses, \* calls of clientConn.Close()
    rcvd,         \* bytes written to the public client on the hijacked stream
    nchunks,      \* chunks the public client has sent after the request head
    wire          \* binary frames written on each control channel

proxyVars ==
    << rpc, rsub, rtun, resp, vclosed, c2t, t2c, c2tBuf, t2cBuf, c2tErr, t2cErr,
       clientCloses, rcvd, nchunks, wire >>

\* the calls made directly on the package functions, on a Registry and on a
\* Connection, each with what it returned
VARIABLE calls

\* Time allowed to write a message to the peer, in seconds
writeWait == 10

\* Time allowed to read the next pong message from the peer, in seconds
pongWait == 60

\* Send pings to peer with this period
pingPeriod == (pongWait * 9) \div 10

\* the listeners of the combined server: cs.httpServer and cs.server
Listeners == {"http", "https"}

\* no pong is on its way to the server
NoPong == -1

\* the requests the mux of the TLS listener has served, each with the handler
\* it reached and the answer
VARIABLE routed

\* the server names autocert has put to the HostPolicy, each with the verdict
\* and whether a certificate was then requested
VARIABLE hostLog

\* the strings put through Normalize and Validate, each with the results
VARIABLE checked

\* the keepalive of the control channel of session s1
VARIABLES
    now,          \* time.Now(), in seconds since handleConnection started
    readDeadline, \* the read deadline set on the underlying conn
    nextTick,     \* when ticker.C delivers next
    pingsSent,    \* pings written on the channel, counted up to MaxPings
    pongAt,       \* when the pong the client has sent reaches the server
    silent,       \* the client has stopped sending
    regAt,        \* when the session got its Success
    pinger        \* the ping goroutine of handleConnection

timeVars == << now, readDeadline, nextTick, pingsSent, pongAt, silent, regAt, pinger >>

\* Connection.closeOnce: its function has run
VARIABLE closeOnce

\* main of cmd/server
VARIABLES
    mainpc,       \* where main is
    listening     \* the listeners that accept connections

\* the writes on the control channel of session s1
VARIABLES
    writeMu,      \* Connection.writeMu: who holds it
    wpc,          \* where each writer is in its write
    stream        \* what the underlying conn has put on the wire, in order

writeVars == << writeMu, wpc, stream >>

\* the goroutines that write frames on one control channel: the session
\* handler (text replies), the ping goroutine and the forwarding goroutines
\* of the public requests (binary frames)
Writers == {"handler", "pinger"} \cup Requests

extVars == << routed, hostLog, checked, timeVars, closeOnce, mainpc, listening, writeVars >>

NoHolder == "free"

\* handleConnection has configured the conn and started the ticker at time 0;
\* the clock reads t, no ping has been sent yet
KeepaliveStart(t) ==
    /\ now = t
    /\ regAt = t
    /\ readDeadline = pongWait
    /\ nextTick = pingPeriod
    /\ pingsSent = 0
    /\ pongAt = NoPong
    /\ silent = FALSE
    /\ pinger = "running"

\* main is serving on both listeners, and nothing has been served yet
ServingInit ==
    /\ routed = << >>
    /\ hostLog = << >>
    /\ checked = << >>
    /\ closeOnce = [s \in Sessions |-> FALSE]
    /\ mainpc = "serving"
    /\ listening = [l \in Listeners |-> TRUE]
    /\ writeMu = NoHolder
    /\ wpc = [w \in Writers |-> "idle"]
    /\ stream = << >>

\* the state of the parts of the server the control plane does not touch:
\* nothing served yet, the channel just accepted, main serving
ExtInit == ServingInit /\ KeepaliveStart(0)

CtlInit ==
    /\ registry = << >>
    /\ pc = [s \in Sessions |-> "read"]
    /\ cur = [s \in Sessions |-> NoMessage]
    /\ sel = [s \in Sessions |-> NoLabel]
    /\ hsub = [s \in Sessions |-> NoLabel]
    /\ htid = [s \in Sessions |-> 0]
    /\ pending = [s \in Sessions |-> NoReply]
    /\ sent = [s \in Sessions |-> << >>]
    /\ writeErr = [s \in Sessions |-> FALSE]
    /\ mu = [s \in Sessions |-> NoHolder]
    /\ binaryQueue = [s \in Sessions |-> << >>]
    /\ readBuffer = [s \in Sessions |-> << >>]
    /\ readOffset = [s \in Sessions |-> 0]
    /\ exitErr = [s \in Sessions |-> ""]
    /\ readErr = [s \in Sessions |-> ""]
    /\ connCloses = [s \in Sessions |-> 0]
    /\ uuids = 0
    /\ nframes = 0

\* ------------------------------------------------------------------------
\* Session handler (Handler.HandleMessages and what it calls)
\* ------------------------------------------------------------------------
\* Connection.ReadMessage, c.mu.Lock(): the control reader takes the read lock
ReadMessageLock(s) ==
    /\ pc[s] = "read"
    /\ mu[s] = NoHolder
    /\ mu' = [mu EXCEPT ![s] = "ctl"]
    /\ pc' = [pc EXCEPT ![s] = "reading"]
    /\ UNCHANGED << registry, cur, sel, hsub, htid, pending, sent, writeErr,
                    binaryQueue, readBuffer, readOffset, exitErr, readErr, connCloses,
                    uuids, nframes >>
    /\ UNCHANGED proxyVars
    /\ UNCHANGED calls
    /\ UNCHANGED extVars

\* the underlying c.conn.ReadMessage(): what it can return now. A closed
\* conn and a conn that has failed a read return that error again; otherwise
\* it returns the next frame the client sends, or the deadline error once
\* the read deadline has passed
connReadMessage(s) ==
    IF connCloses[s] > 0 THEN { ClosedFrame }
    ELSE IF readErr[s] # "" THEN { Frame("err", readErr[s], << >>, FALSE, NoMessage) }
    ELSE (IF nframes < MaxFrames THEN Frames ELSE {})
             \cup (IF now >= readDeadline
                   THEN { Frame("err", "deadline", << >>, FALSE, NoMessage) }
                   ELSE {})

\* the underlying read returns at once, with an error: the conn is closed or
\* has failed a read before
connReadFails(s) ==
    /\ s \in Sessions
    /\ connCloses[s] > 0 \/ readErr[s] # ""

\* the effect of that read on the conn and on the client's frames
connReadDone(s, f) ==
    /\ nframes' = IF connCloses[s] = 0 /\ readErr[s] = "" THEN nframes + 1 ELSE nframes
    /\ readErr' = IF f.kind = "err" /\ connCloses[s] = 0
                  THEN [readErr EXCEPT ![s] = f.err]
                  ELSE readErr

\* a ReadMessage that queues nothing: a binary frame is returned as io.EOF
ReadMessageBinaryEOF(s, f) ==
    /\ pc[s] = "reading"
    /\ f \in connReadMessage(s)
    /\ connReadDone(s, f)
    /\ mu' = [mu EXCEPT ![s] = NoHolder]
    /\ CASE f.kind = "err" ->
              /\ pc' = [pc EXCEPT ![s] = "cleanup"]
              /\ exitErr' = [exitErr EXCEPT ![s] = f.err]
              /\ UNCHANGED << binaryQueue, cur, sent >>
         [] f.kind = "binary" ->
              /\ pc' = [pc EXCEPT ![s] = "cleanup"]
              /\ exitErr' = [exitErr EXCEPT ![s] = "EOF"]
              /\ UNCHANGED << binaryQueue, cur, sent >>
         [] f.kind = "text" /\ ~f.decodes ->
              /\ pc' = [pc EXCEPT ![s] = "cleanup"]
              /\ exitErr' = [exitErr EXCEPT ![s] = "json"]
              /\ UNCHANGED << binaryQueue, cur, sent >>
         [] f.kind = "text" /\ f.decodes ->
              /\ pc' = [pc EXCEPT ![s] = "handle"]
              /\ cur' = [cur EXCEPT ![s] = f.msg]
              /\ sent' = [sent EXCEPT ![s] = << >>]
              /\ UNCHANGED << binaryQueue, exitErr >>
    /\ UNCHANGED << registry, sel, hsub, htid, pending, writeErr, readBuffer,
                    readOffset, connCloses, uuids >>
    /\ UNCHANGED proxyVars
    /\ UNCHANGED calls
    /\ UNCHANGED extVars

\* Connection.ReadMessage from c.conn.ReadMessage() on, with the branch of
\* HandleMessages on its result: f is what the underlying read returns
ReadMessage(s, f) ==
    /\ pc[s] = "reading"
    /\ f \in connReadMessage(s)
    /\ connReadDone(s, f)
    /\ mu' = [mu EXCEPT ![s] = NoHolder]
    /\ CASE f.kind = "err" ->
              /\ pc' = [pc EXCEPT ![s] = "cleanup"]
              /\ exitErr' = [exitErr EXCEPT ![s] = f.err]
              /\ UNCHANGED << binaryQueue, cur, sent >>
         [] f.kind = "binary" ->
              /\ Len(binaryQueue[s]) < MaxQueue
              /\ binaryQueue' = [binaryQueue EXCEPT ![s] = Append(@, f.data)]
              /\ pc' = [pc EXCEPT ![s] = "read"]
              /\ UNCHANGED << exitErr, cur, sent >>
         [] f.kind = "text" /\ ~f.decodes ->
              /\ pc' = [pc EXCEPT ![s] = "cleanup"]
              /\ exitErr' = [exitErr EXCEPT ![s] = "json"]
              /\ UNCHANGED << binaryQueue, cur, sent >>
         [] f.kind = "text" /\ f.decodes ->
              /\ pc' = [pc EXCEPT ![s] = "handle"]
              /\ cur' = [cur EXCEPT ![s] = f.msg]
              /\ sent' = [sent EXCEPT ![s] = << >>]
              /\ UNCHANGED << binaryQueue, exitErr >>
    /\ UNCHANGED << registry, sel, hsub, htid, pending, writeErr, readBuffer,
                    readOffset, connCloses, uuids >>
    /\ UNCHANGED proxyVars
    /\ UNCHANGED calls
    /\ UNCHANGED extVars

\* a handler returns err: HandleMessages calls h.sendError(err.Error())
ReturnError(s, e) ==
    /\ pending' = [pending EXCEPT ![s] = ErrorReply(e)]
    /\ pc' = [pc EXCEPT ![s] = "send"]

\* a handler returns h.send(m)
ReturnSend(s, m) ==
    /\ pending' = [pending EXCEPT ![s] = m]
    /\ pc' = [pc EXCEPT ![s] = "send"]

\* handleRegister that leaves the test of availability to Registry.Register
handleRegisterNoAvailable(s) ==
    LET req == cur[s]
        normalized == Normalize(req.sub)
    IN
    /\ UNCHANGED << registry, hsub, htid >>
    /\ IF ~req.payloadOK
       THEN /\ ReturnError(s, Err("invalid register request: %w", "", NoLabel, ""))
            /\ UNCHANGED sel
       ELSE IF req.sub # << >>
       THEN IF Validate(normalized) # NoErr
            THEN /\ ReturnError(s, [Validate(normalized) EXCEPT
                                       !.wrap = "invalid subdomain: %w"])
                 /\ UNCHANGED sel
            ELSE /\ sel' = [sel EXCEPT ![s] = normalized]
                 /\ pc' = [pc EXCEPT ![s] = "register"]
                 /\ UNCHANGED pending
       ELSE \/ \E g \in Generate :
                 /\ sel' = [sel EXCEPT ![s] = g]
                 /\ pc' = [pc EXCEPT ![s] = "register"]
                 /\ UNCHANGED pending
            \/ /\ ReturnError(s, Err("failed to generate subdomain: %w",
                                     "failed to generate random subdomain: %w",
                                     NoLabel, ""))
               /\ UNCHANGED sel

\* Handler.handleRegister up to the creation of the tunnel
handleRegister(s) ==
    LET req == cur[s]
        normalized == Normalize(req.sub)
    IN
    /\ UNCHANGED << registry, hsub, htid >>
    /\ IF ~req.payloadOK
       THEN /\ ReturnError(s, Err("invalid register request: %w", "", NoLabel, ""))
            /\ UNCHANGED sel
       ELSE IF req.sub # << >>
       THEN IF Validate(normalized) # NoErr
            THEN /\ ReturnError(s, [Validate(normalized) EXCEPT
                                       !.wrap = "invalid subdomain: %w"])
                 /\ UNCHANGED sel
            ELSE IF ~IsSubdomainAvailable(registry, normalized)
            THEN /\ ReturnError(s, Err("", "subdomain '%s' is already in use",
                                       normalized, ""))
                 /\ UNCHANGED sel
            ELSE /\ sel' = [sel EXCEPT ![s] = normalized]
                 /\ pc' = [pc EXCEPT ![s] = "register"]
                 /\ UNCHANGED pending
       ELSE \/ \E g \in Generate :
                 /\ sel' = [sel EXCEPT ![s] = g]
                 /\ pc' = [pc EXCEPT ![s] = "register"]
                 /\ UNCHANGED pending
            \/ /\ ReturnError(s, Err("failed to generate subdomain: %w",
                                     "failed to generate random subdomain: %w",
                                     NoLabel, ""))
               /\ UNCHANGED sel

\* handleUnregister that forgets to clear h.subdomain and h.tunnelID
handleUnregisterKeepsFields(s) ==
    /\ UNCHANGED << sel, hsub, htid >>
    /\ IF hsub[s] = NoLabel
       THEN /\ ReturnError(s, Err("", "no tunnel registered", NoLabel, ""))
            /\ UNCHANGED registry
       ELSE /\ registry' = Unregister(registry, hsub[s])
            /\ ReturnSend(s, SuccessReply(NoData))

\* handleUnregister without the test of h.subdomain
handleUnregisterNoCheck(s) ==
    /\ UNCHANGED sel
    /\ registry' = Unregister(registry, hsub[s])
    /\ htid' = [htid EXCEPT ![s] = 0]
    /\ hsub' = [hsub EXCEPT ![s] = NoLabel]
    /\ ReturnSend(s, SuccessReply(NoData))

\* Handler.handleUnregister
handleUnregister(s) ==
    /\ UNCHANGED sel
    /\ IF hsub[s] = NoLabel
       THEN /\ ReturnError(s, Err("", "no tunnel registered", NoLabel, ""))
            /\ UNCHANGED << registry, hsub, htid >>
       ELSE /\ registry' = Unregister(registry, hsub[s])
            /\ htid' = [htid EXCEPT ![s] = 0]
            /\ hsub' = [hsub EXCEPT ![s] = NoLabel]
            /\ ReturnSend(s, SuccessReply(NoData))

\* handlePing that returns without a reply
handlePingSilent(s) ==
    /\ pc' = [pc EXCEPT ![s] = "read"]
    /\ UNCHANGED << registry, sel, hsub, htid, pending >>

\* Handler.handlePing
handlePing(s) ==
    /\ ReturnSend(s, Pong)
    /\ UNCHANGED << registry, sel, hsub, htid >>

\* handleMessage without the case for Data messages
handleMessageNoDataCase(s) ==
    /\ pc[s] = "handle"
    /\ CASE cur[s].type = "register" -> handleRegister(s)
         [] cur[s].type = "unregister" -> handleUnregister(s)
         [] cur[s].type = "ping" -> handlePing(s)
         [] OTHER ->
              /\ ReturnError(s, Err("", "unknown message type: %s", NoLabel,
                                    cur[s].type))
              /\ UNCHANGED << registry, sel, hsub, htid >>
    /\ UNCHANGED << cur, sent, writeErr, mu, binaryQueue, readBuffer, readOffset,
                    exitErr, readErr, connCloses, uuids, nframes >>
    /\ UNCHANGED proxyVars
    /\ UNCHANGED calls
    /\ UNCHANGED extVars

\* Handler.handleMessage: the switch on msg.Type
handleMessage(s) ==
    /\ pc[s] = "handle"
    /\ CASE cur[s].type = "register" -> handleRegister(s)
         [] cur[s].type = "unregister" -> handleUnregister(s)
         [] cur[s].type = "ping" -> handlePing(s)
         [] cur[s].type = "data" ->
              /\ pc' = [pc EXCEPT ![s] = "read"]
              /\ UNCHANGED << registry, sel, hsub, htid, pending >>
         [] OTHER ->
              /\ ReturnError(s, Err("", "unknown message type: %s", NoLabel,
                                    cur[s].type))
              /\ UNCHANGED << registry, sel, hsub, htid >>
    /\ UNCHANGED << cur, sent, writeErr, mu, binaryQueue, readBuffer, readOffset,
                    exitErr, readErr, connCloses, uuids, nframes >>
    /\ UNCHANGED proxyVars
    /\ UNCHANGED calls
    /\ UNCHANGED extVars

\* handleRegister that drops the error of Registry.Register
handleRegisterTunnelIgnoresErr(s) ==
    LET tunnelID == uuids + 1
        tun == Tunnel(tunnelID, sel[s], s)
        res == Register(registry, tun)
    IN
    /\ pc[s] = "register"
    /\ uuids' = tunnelID
    /\ registry' = res.tunnels
    /\ htid' = [htid EXCEPT ![s] = tunnelID]
    /\ hsub' = [hsub EXCEPT ![s] = sel[s]]
    /\ ReturnSend(s, SuccessReply(RegisterResponse(tunnelID, sel[s])))
    /\ UNCHANGED << cur, sel, sent, writeErr, mu, binaryQueue, readBuffer,
                    readOffset, exitErr, readErr, connCloses, nframes >>
    /\ UNCHANGED proxyVars
    /\ UNCHANGED calls
    /\ UNCHANGED extVars

\* Handler.handleRegister from "Create tunnel" on: uuid.New(), the tunnel,
\* Registry.Register, the handler's fields, the Success response
handleRegisterTunnel(s) ==
    LET tunnelID == uuids + 1
        tun == Tunnel(tunnelID, sel[s], s)
        res == Register(registry, tun)
    IN
    /\ pc[s] = "register"
    /\ uuids' = tunnelID
    /\ registry' = res.tunnels
    /\ IF res.err # NoErr
       THEN /\ ReturnError(s, [res.err EXCEPT
                                  !.wrap = "failed to register tunnel: %w"])
            /\ UNCHANGED << hsub, htid >>
       ELSE /\ htid' = [htid EXCEPT ![s] = tunnelID]
            /\ hsub' = [hsub EXCEPT ![s] = sel[s]]
            /\ ReturnSend(s, SuccessReply(RegisterResponse(tunnelID, sel[s])))
    /\ UNCHANGED << cur, sel, sent, writeErr, mu, binaryQueue, readBuffer,
                    readOffset, exitErr, readErr, connCloses, nframes >>
    /\ UNCHANGED proxyVars
    /\ UNCHANGED calls
    /\ UNCHANGED extVars

\* the underlying c.conn.WriteMessage(): whether it can succeed. A write on
\* a closed conn, and every write after a failed one, fails
connWriteMessage(s) ==
    IF writeErr[s] \/ connCloses[s] > 0 THEN {FALSE} ELSE BOOLEAN

\* Handler.send -> Connection.WriteMessage: the frame is written, or the
\* write fails (closed peer, write deadline) and every later write fails too;
\* when a reply fails HandleMessages calls sendError, whose write fails as well
send(s) ==
    /\ pc[s] = "send"
    /\ \E ok \in connWriteMessage(s) :
          IF ok
          THEN /\ sent' = [sent EXCEPT ![s] = Append(@, pending[s])]
               /\ UNCHANGED writeErr
          ELSE /\ writeErr' = [writeErr EXCEPT ![s] = TRUE]
               /\ UNCHANGED sent
    /\ pc' = [pc EXCEPT ![s] = "read"]
    /\ UNCHANGED << registry, cur, sel, hsub, htid, pending, mu, binaryQueue,
                    readBuffer, readOffset, exitErr, readErr, connCloses, uuids, nframes >>
    /\ UNCHANGED proxyVars
    /\ UNCHANGED calls
    /\ UNCHANGED extVars

\* HandleMessages that returns the read error without the cleanup
HandleMessagesExitNoCleanup(s) ==
    /\ pc[s] = "cleanup"
    /\ pc' = [pc EXCEPT ![s] = "returned"]
    /\ UNCHANGED << registry, cur, sel, hsub, htid, pending, sent, writeErr, mu,
                    binaryQueue, readBuffer, readOffset, exitErr, readErr, connCloses,
                    uuids, nframes >>
    /\ UNCHANGED proxyVars
    /\ UNCHANGED calls
    /\ UNCHANGED extVars

\* HandleMessages when ReadMessage failed: unregister h.subdomain, return err
HandleMessagesExit(s) ==
    /\ pc[s] = "cleanup"
    /\ registry' = IF hsub[s] # NoLabel
                   THEN Unregister(registry, hsub[s])
                   ELSE registry
    /\ pc' = [pc EXCEPT ![s] = "returned"]
    /\ UNCHANGED << cur, sel, hsub, htid, pending, sent, writeErr, mu,
                    binaryQueue, readBuffer, readOffset, exitErr, readErr, connCloses,
                    uuids, nframes >>
    /\ UNCHANGED proxyVars
    /\ UNCHANGED calls
    /\ UNCHANGED extVars

\* Server.handleConnection after HandleMessages returned: the deferred
\* ticker.Stop() and conn.Close()
handleConnectionExit(s) ==
    /\ pc[s] = "returned"
    /\ connCloses' = [connCloses EXCEPT ![s] = @ + 1]
    /\ pc' = [pc EXCEPT ![s] = "closed"]
    /\ UNCHANGED << registry, cur, sel, hsub, htid, pending, sent, writeErr, mu,
                    binaryQueue, readBuffer, readOffset, exitErr, readErr, uuids,
                    nframes >>
    /\ UNCHANGED proxyVars
    /\ UNCHANGED calls
    /\ UNCHANGED extVars

CtlNext ==
    \/ \E s \in Sessions : ReadMessageLock(s)
    \/ \E s \in Sessions, f \in Frames : ReadMessage(s, f)
    \/ \E s \in Sessions : handleMessage(s)
    \/ \E s \in Sessions : handleRegisterTunnel(s)
    \/ \E s \in Sessions : send(s)
    \/ \E s \in Sessions : HandleMessagesExit(s)
    \/ \E s \in Sessions : handleConnectionExit(s)

\* ------------------------------------------------------------------------
\* Proxy forwarder (CombinedServer.handleProxy and what it calls)
\* ------------------------------------------------------------------------
\* strings.Index(host, ":"), 0 when absent
RECURSIVE ColonIndex(_, _)
ColonIndex(host, i) ==
    IF i > Len(host) THEN 0
    ELSE IF host[i] = ":" THEN i
    ELSE ColonIndex(host, i + 1)

\* strings.HasSuffix
HasSuffix(s, suffix) ==
    /\ Len(s) >= Len(suffix)
    /\ SubSeq(s, Len(s) - Len(suffix) + 1, Len(s)) = suffix

\* strings.TrimSuffix
TrimSuffix(s, suffix) ==
    IF HasSuffix(s, suffix) THEN SubSeq(s, 1, Len(s) - Len(suffix)) ELSE s

\* CombinedServer.extractSubdomain
extractSubdomain(host0) ==
    LET host == IF ColonIndex(host0, 1) # 0
                THEN SubSeq(host0, 1, ColonIndex(host0, 1) - 1)
                ELSE host0
        domain == << "." >> \o Domain
    IN
    IF ~HasSuffix(host, domain) /\ host # Domain
    THEN << >>
    ELSE TrimSpace(TrimSuffix(host, domain))

\* the Host headers of the public requests
Hosts ==
    { << "a" >> \o << "." >> \o Domain,
      << "a" >> \o << "." >> \o Domain \o << ":", "4", "4", "3" >>,
      << "z" >> \o << "." >> \o Domain,
      Domain,
      << "t", ".", "c", "o" >> }

\* an HTTP response: the status, the message, the subdomain it names and
\* whether the HTTP layer ("http") or the hijacked stream ("raw") carried it
Response(status, body, sub, via) ==
    [status |-> status, body |-> body, sub |-> sub, via |-> via]

NoResponse == Response(0, "", NoLabel, "")

NoTunnel == Tunnel(0, NoLabel, NoSession)

\* the request head r.Write puts on the tunnel, and the chunks a public
\* client sends after it
RequestHead == << 7 >>

ClientChunk == << 8 >>

\* len(buf) of io.Copy, in the unit of the payloads
CopyBufLen == 1

Min(a, b) == IF a < b THEN a ELSE b

ProxyInitVars ==
    /\ rpc = [r \in Requests |-> "new"]
    /\ rsub = [r \in Requests |-> NoLabel]
    /\ rtun = [r \in Requests |-> NoTunnel]
    /\ resp = [r \in Requests |-> NoResponse]
    /\ vclosed = [r \in Requests |-> FALSE]
    /\ c2t = [r \in Requests |-> "idle"]
    /\ t2c = [r \in Requests |-> "idle"]
    /\ c2tBuf = [r \in Requests |-> << >>]
    /\ t2cBuf = [r \in Requests |-> << >>]
    /\ c2tErr = [r \in Requests |-> ""]
    /\ t2cErr = [r \in Requests |-> ""]
    /\ clientCloses = [r \in Requests |-> 0]
    /\ rcvd = [r \in Requests |-> << >>]
    /\ nchunks = [r \in Requests |-> 0]
    /\ wire = [s \in Sessions |-> << >>]

\* Connection.Write: one binary frame on the channel (ok), or a failed write
ConnectionWrite(s, r, p, ok) ==
    IF ok
    THEN /\ wire' = [wire EXCEPT ![s] = Append(@, [req |-> r, data |-> p])]
         /\ UNCHANGED writeErr
    ELSE /\ writeErr' = [writeErr EXCEPT ![s] = TRUE]
         /\ UNCHANGED wire

\* VirtualConnection.Write on the request's tunnelConn
VirtualConnectionWrite(r, p, ok) ==
    IF vclosed[r]
    THEN /\ c2tErr' = [c2tErr EXCEPT ![r] = "ErrClosedPipe"]
         /\ UNCHANGED << wire, writeErr >>
    ELSE /\ ConnectionWrite(rtun[r].WSConn, r, p, ok)
         /\ c2tErr' = [c2tErr EXCEPT ![r] = IF ok THEN "" ELSE "write"]

\* a Close that also closes the underlying connection
VirtualConnectionCloseUnderlying(r) ==
    /\ vclosed' = [vclosed EXCEPT ![r] = TRUE]
    /\ connCloses' = [connCloses EXCEPT ![rtun[r].WSConn] = @ + 1]

\* VirtualConnection.Close on the request's tunnelConn: the flag only, the
\* underlying connection gets no Close
VirtualConnectionClose(r) ==
    /\ vclosed' = [vclosed EXCEPT ![r] = TRUE]
    /\ UNCHANGED connCloses

\* net.Conn.Close on the hijacked clientConn
clientConnClose(r, n) == clientCloses' = [clientCloses EXCEPT ![r] = @ + n]

\* handleProxy that hijacks before the lookup and answers a miss on the
\* hijacked stream
handleProxyHijackFirst(r, host, hijack) ==
    LET subdomain == extractSubdomain(host)
        found == Get(registry, subdomain)
    IN
    /\ rpc[r] = "new"
    /\ IF subdomain = << >>
       THEN /\ resp' = [resp EXCEPT ![r] =
                           Response(404, "Invalid hostname", NoLabel, "http")]
            /\ rpc' = [rpc EXCEPT ![r] = "responded"]
            /\ UNCHANGED << rsub, rtun, clientCloses >>
       ELSE IF hijack # "ok"
       THEN /\ resp' = [resp EXCEPT ![r] =
                           Response(500, "Internal server error", NoLabel, "http")]
            /\ rpc' = [rpc EXCEPT ![r] = "responded"]
            /\ rsub' = [rsub EXCEPT ![r] = subdomain]
            /\ UNCHANGED << rtun, clientCloses >>
       ELSE IF ~found.exists
       THEN /\ resp' = [resp EXCEPT ![r] =
                           Response(404, "Tunnel not found for subdomain: %s",
                                    subdomain, "raw")]
            /\ rpc' = [rpc EXCEPT ![r] = "responded"]
            /\ rsub' = [rsub EXCEPT ![r] = subdomain]
            /\ clientConnClose(r, 1)
            /\ UNCHANGED rtun
       ELSE /\ rpc' = [rpc EXCEPT ![r] = "dial"]
            /\ rsub' = [rsub EXCEPT ![r] = subdomain]
            /\ rtun' = [rtun EXCEPT ![r] = found.tunnel]
            /\ UNCHANGED << resp, clientCloses >>
    /\ UNCHANGED << vclosed, c2t, t2c, c2tBuf, t2cBuf, c2tErr, t2cErr,
                    rcvd, nchunks, wire >>
    /\ UNCHANGED ctlVars
    /\ UNCHANGED calls
    /\ UNCHANGED extVars

\* CombinedServer.handleProxy up to the start of the forwarding goroutine
handleProxy(r, host, hijack) ==
    LET subdomain == extractSubdomain(host)
        found == Get(registry, subdomain)
    IN
    /\ rpc[r] = "new"
    /\ IF subdomain = << >>
       THEN /\ resp' = [resp EXCEPT ![r] =
                           Response(404, "Invalid hostname", NoLabel, "http")]
            /\ rpc' = [rpc EXCEPT ![r] = "responded"]
            /\ UNCHANGED << rsub, rtun >>
       ELSE IF ~found.exists
       THEN /\ resp' = [resp EXCEPT ![r] =
                           Response(404, "Tunnel not found for subdomain: %s",
                                    subdomain, "http")]
            /\ rpc' = [rpc EXCEPT ![r] = "responded"]
            /\ rsub' = [rsub EXCEPT ![r] = subdomain]
            /\ UNCHANGED rtun
       ELSE IF hijack # "ok"
       THEN /\ resp' = [resp EXCEPT ![r] =
                           Response(500, "Internal server error", NoLabel, "http")]
            /\ rpc' = [rpc EXCEPT ![r] = "responded"]
            /\ rsub' = [rsub EXCEPT ![r] = subdomain]
            /\ UNCHANGED rtun
       ELSE /\ rpc' = [rpc EXCEPT ![r] = "dial"]
            /\ rsub' = [rsub EXCEPT ![r] = subdomain]
            /\ rtun' = [rtun EXCEPT ![r] = found.tunnel]
            /\ UNCHANGED resp
    /\ UNCHANGED << vclosed, c2t, t2c, c2tBuf, t2cBuf, c2tErr, t2cErr,
                    clientCloses, rcvd, nchunks, wire >>
    /\ UNCHANGED ctlVars
    /\ UNCHANGED calls
    /\ UNCHANGED extVars

\* proxy.DialThroughTunnel(tun): a virtual connection over tun.WSConn
DialThroughTunnel(r) ==
    /\ rpc[r] = "dial"
    /\ vclosed' = [vclosed EXCEPT ![r] = FALSE]
    /\ rpc' = [rpc EXCEPT ![r] = "writeReq"]
    /\ UNCHANGED << rsub, rtun, resp, c2t, t2c, c2tBuf, t2cBuf, c2tErr, t2cErr,
                    clientCloses, rcvd, nchunks, wire >>
    /\ UNCHANGED ctlVars
    /\ UNCHANGED calls
    /\ UNCHANGED extVars

\* the forwarding goroutine: r.Write(tunnelConn); when it fails the goroutine
\* returns (deferred tunnelConn.Close() and clientConn.Close()), otherwise
\* CopyBidirectional starts its two copiers
writeRequest(r) ==
    /\ rpc[r] = "writeReq"
    /\ \E ok \in connWriteMessage(rtun[r].WSConn) :
          /\ VirtualConnectionWrite(r, RequestHead, ok)
          /\ IF ok
             THEN /\ rpc' = [rpc EXCEPT ![r] = "splice"]
                  /\ c2t' = [c2t EXCEPT ![r] = "read"]
                  /\ t2c' = [t2c EXCEPT ![r] = "vread"]
                  /\ UNCHANGED << vclosed, clientCloses, connCloses >>
             ELSE /\ rpc' = [rpc EXCEPT ![r] = "finished"]
                  /\ VirtualConnectionClose(r)
                  /\ clientConnClose(r, 1)
                  /\ UNCHANGED << c2t, t2c >>
    /\ UNCHANGED << rsub, rtun, resp, c2tBuf, t2cBuf, t2cErr, rcvd, nchunks >>
    /\ UNCHANGED << registry, pc, cur, sel, hsub, htid, pending, sent, mu,
                    binaryQueue, readBuffer, readOffset, exitErr, readErr, uuids,
                    nframes >>
    /\ UNCHANGED calls
    /\ UNCHANGED extVars

\* io.Copy(conn2, conn1), clientConn.Read: a chunk of the client, its EOF, or
\* an error (deadline, or clientConn already closed)
copyClientRead(r) ==
    /\ c2t[r] = "read"
    /\ \/ /\ clientCloses[r] = 0
          /\ nchunks[r] < MaxClientChunks
          /\ nchunks' = [nchunks EXCEPT ![r] = @ + 1]
          /\ c2tBuf' = [c2tBuf EXCEPT ![r] = ClientChunk]
          /\ c2t' = [c2t EXCEPT ![r] = "write"]
       \/ /\ c2t' = [c2t EXCEPT ![r] = "done"]
          /\ UNCHANGED << nchunks, c2tBuf >>
    /\ UNCHANGED << rpc, rsub, rtun, resp, vclosed, t2c, t2cBuf, c2tErr, t2cErr,
                    clientCloses, rcvd, wire >>
    /\ UNCHANGED ctlVars
    /\ UNCHANGED calls
    /\ UNCHANGED extVars

\* io.Copy(conn2, conn1), tunnelConn.Write of the chunk read
copyTunnelWrite(r) ==
    /\ c2t[r] = "write"
    /\ \E ok \in connWriteMessage(rtun[r].WSConn) :
          /\ VirtualConnectionWrite(r, c2tBuf[r], ok)
          /\ c2t' = [c2t EXCEPT ![r] = IF ok /\ ~vclosed[r] THEN "read" ELSE "done"]
    /\ c2tBuf' = [c2tBuf EXCEPT ![r] = << >>]
    /\ UNCHANGED << rpc, rsub, rtun, resp, vclosed, t2c, t2cBuf, t2cErr,
                    clientCloses, rcvd, nchunks >>
    /\ UNCHANGED << registry, pc, cur, sel, hsub, htid, pending, sent, mu,
                    binaryQueue, readBuffer, readOffset, exitErr, readErr,
                    connCloses, uuids, nframes >>
    /\ UNCHANGED calls
    /\ UNCHANGED extVars

\* io.Copy(conn1, conn2), VirtualConnection.Read: EOF when closed, otherwise
\* it goes on to underlying.Read
VirtualConnectionRead(r) ==
    /\ t2c[r] = "vread"
    /\ IF vclosed[r]
       THEN /\ t2cErr' = [t2cErr EXCEPT ![r] = "EOF"]
            /\ t2c' = [t2c EXCEPT ![r] = "done"]
       ELSE /\ t2cErr' = [t2cErr EXCEPT ![r] = ""]
            /\ t2c' = [t2c EXCEPT ![r] = "uread"]
    /\ UNCHANGED << rpc, rsub, rtun, resp, vclosed, c2t, c2tBuf, t2cBuf, c2tErr,
                    clientCloses, rcvd, nchunks, wire >>
    /\ UNCHANGED ctlVars
    /\ UNCHANGED calls
    /\ UNCHANGED extVars

\* the copy into p that keeps nothing of a frame larger than p
readCopyDropsRest(s, r, buf, off) ==
    LET n == Min(CopyBufLen, Len(buf) - off) IN
    /\ t2cBuf' = [t2cBuf EXCEPT ![r] = SubSeq(buf, off + 1, off + n)]
    /\ readBuffer' = [readBuffer EXCEPT ![s] = << >>]
    /\ readOffset' = [readOffset EXCEPT ![s] = 0]

\* Connection.Read, the copy of buffered bytes into p: n = copy(p, buf[off:])
\* and the buffer cleared once consumed
readCopy(s, r, buf, off) ==
    LET n == Min(CopyBufLen, Len(buf) - off) IN
    /\ t2cBuf' = [t2cBuf EXCEPT ![r] = SubSeq(buf, off + 1, off + n)]
    /\ IF off + n >= Len(buf)
       THEN /\ readBuffer' = [readBuffer EXCEPT ![s] = << >>]
            /\ readOffset' = [readOffset EXCEPT ![s] = 0]
       ELSE /\ readBuffer' = [readBuffer EXCEPT ![s] = buf]
            /\ readOffset' = [readOffset EXCEPT ![s] = off + n]

\* Connection.Read from c.mu.Lock() on: buffered bytes first, then a queued
\* binary message, otherwise it reads the underlying conn itself, keeping c.mu
ConnectionRead(r) ==
    LET s == rtun[r].WSConn IN
    /\ t2c[r] = "uread"
    /\ mu[s] = NoHolder
    /\ IF readOffset[s] < Len(readBuffer[s])
       THEN /\ readCopy(s, r, readBuffer[s], readOffset[s])
            /\ t2c' = [t2c EXCEPT ![r] = "cwrite"]
            /\ UNCHANGED << binaryQueue, mu >>
       ELSE IF Len(binaryQueue[s]) > 0
       THEN /\ readCopy(s, r, Head(binaryQueue[s]), 0)
            /\ binaryQueue' = [binaryQueue EXCEPT ![s] = Tail(@)]
            /\ t2c' = [t2c EXCEPT ![r] = "cwrite"]
            /\ UNCHANGED mu
       ELSE /\ mu' = [mu EXCEPT ![s] = r]
            /\ t2c' = [t2c EXCEPT ![r] = "ublocked"]
            /\ UNCHANGED << binaryQueue, readBuffer, readOffset, t2cBuf >>
    /\ UNCHANGED << rpc, rsub, rtun, resp, vclosed, c2t, c2tBuf, c2tErr, t2cErr,
                    clientCloses, rcvd, nchunks, wire >>
    /\ UNCHANGED << registry, pc, cur, sel, hsub, htid, pending, sent, writeErr,
                    exitErr, readErr, connCloses, uuids, nframes >>
    /\ UNCHANGED calls
    /\ UNCHANGED extVars

\* Connection.Read from its own c.conn.ReadMessage() on: f is what the
\* underlying read returns; an error is returned, a frame that is not binary
\* is dropped and read as io.EOF, a binary frame is copied into p
ConnectionReadFrame(r, f) ==
    LET s == rtun[r].WSConn IN
    /\ t2c[r] = "ublocked"
    /\ f \in connReadMessage(s)
    /\ connReadDone(s, f)
    /\ mu' = [mu EXCEPT ![s] = NoHolder]
    /\ CASE f.kind = "err" ->
              /\ t2cErr' = [t2cErr EXCEPT ![r] = f.err]
              /\ t2c' = [t2c EXCEPT ![r] = "done"]
              /\ readBuffer' = [readBuffer EXCEPT ![s] = << >>]
              /\ UNCHANGED << readOffset, t2cBuf >>
         [] f.kind = "text" ->
              /\ t2cErr' = [t2cErr EXCEPT ![r] = "EOF"]
              /\ t2c' = [t2c EXCEPT ![r] = "done"]
              /\ readBuffer' = [readBuffer EXCEPT ![s] = << >>]
              /\ UNCHANGED << readOffset, t2cBuf >>
         [] f.kind = "binary" ->
              /\ readCopy(s, r, f.data, 0)
              /\ t2c' = [t2c EXCEPT ![r] = "cwrite"]
              /\ UNCHANGED t2cErr
    /\ UNCHANGED << rpc, rsub, rtun, resp, vclosed, c2t, c2tBuf, c2tErr,
                    clientCloses, rcvd, nchunks, wire >>
    /\ UNCHANGED << registry, pc, cur, sel, hsub, htid, pending, sent, writeErr,
                    binaryQueue, exitErr, connCloses, uuids >>
    /\ UNCHANGED calls
    /\ UNCHANGED extVars

\* io.Copy(conn1, conn2), clientConn.Write of the bytes read: they reach the
\* public client, or the write fails (always so once clientConn is closed)
copyClientWrite(r) ==
    /\ t2c[r] = "cwrite"
    /\ \E ok \in (IF clientCloses[r] > 0 THEN {FALSE} ELSE BOOLEAN) :
          IF ok
          THEN /\ rcvd' = [rcvd EXCEPT ![r] = @ \o t2cBuf[r]]
               /\ t2c' = [t2c EXCEPT ![r] = "vread"]
          ELSE /\ t2c' = [t2c EXCEPT ![r] = "done"]
               /\ UNCHANGED rcvd
    /\ t2cBuf' = [t2cBuf EXCEPT ![r] = << >>]
    /\ UNCHANGED << rpc, rsub, rtun, resp, vclosed, c2t, c2tBuf, c2tErr, t2cErr,
                    clientCloses, nchunks, wire >>
    /\ UNCHANGED ctlVars
    /\ UNCHANGED calls
    /\ UNCHANGED extVars

\* CopyBidirectional after err := <-errChan: one copier has finished, both
\* connections are closed
CopyBidirectionalClose(r) ==
    /\ rpc[r] = "splice"
    /\ c2t[r] = "done" \/ t2c[r] = "done"
    /\ clientConnClose(r, 1)
    /\ VirtualConnectionClose(r)
    /\ rpc' = [rpc EXCEPT ![r] = "wait2"]
    /\ UNCHANGED << rsub, rtun, resp, c2t, t2c, c2tBuf, t2cBuf, c2tErr, t2cErr,
                    rcvd, nchunks, wire >>
    /\ UNCHANGED << registry, pc, cur, sel, hsub, htid, pending, sent, writeErr,
                    mu, binaryQueue, readBuffer, readOffset, exitErr, readErr,
                    uuids, nframes >>
    /\ UNCHANGED calls
    /\ UNCHANGED extVars

\* CopyBidirectional after the second <-errChan: it returns, and the deferred
\* tunnelConn.Close() and clientConn.Close() of the goroutine run
CopyBidirectionalReturn(r) ==
    /\ rpc[r] = "wait2"
    /\ c2t[r] = "done" /\ t2c[r] = "done"
    /\ clientConnClose(r, 1)
    /\ VirtualConnectionClose(r)
    /\ rpc' = [rpc EXCEPT ![r] = "finished"]
    /\ UNCHANGED << rsub, rtun, resp, c2t, t2c, c2tBuf, t2cBuf, c2tErr, t2cErr,
                    rcvd, nchunks, wire >>
    /\ UNCHANGED << registry, pc, cur, sel, hsub, htid, pending, sent, writeErr,
                    mu, binaryQueue, readBuffer, readOffset, exitErr, readErr,
                    uuids, nframes >>
    /\ UNCHANGED calls
    /\ UNCHANGED extVars

HijackResults == {"ok", "unsupported", "failed"}

ProxyNext ==
    \/ \E r \in Requests, host \in Hosts, hijack \in HijackResults :
          handleProxy(r, host, hijack)
    \/ \E r \in Requests : DialThroughTunnel(r)
    \/ \E r \in Requests : writeRequest(r)
    \/ \E r \in Requests : copyClientRead(r)
    \/ \E r \in Requests : copyTunnelWrite(r)
    \/ \E r \in Requests : VirtualConnectionRead(r)
    \/ \E r \in Requests : ConnectionRead(r)
    \/ \E r \in Requests, f \in Frames \cup {ClosedFrame} : ConnectionReadFrame(r, f)
    \/ \E r \in Requests : copyClientWrite(r)
    \/ \E r \in Requests : CopyBidirectionalClose(r)
    \/ \E r \in Requests : CopyBidirectionalReturn(r)

vars == << ctlVars, proxyVars, calls, extVars >>

\* ------------------------------------------------------------------------
\* Specifications
\* ------------------------------------------------------------------------
\* the server after start-up: two accepted control channels, no tunnel, no
\* public request served yet
Init == CtlInit /\ ProxyInitVars /\ calls = << >> /\ ExtInit

\* the control plane: the sessions and the registry
Next == CtlNext

Spec == Init /\ [][Next]_vars

\* the data plane starts where session s1 has registered "a" with its second
\* frame and got its Success (a state Spec reaches), and the public requests
\* arrive
ProxyTunnel == Tunnel(1, << "a" >>, "s1")

\* the control plane where session s1 holds "a" and waits for its next frame
RegisteredInit ==
    /\ registry = [k \in {<< "a" >>} |-> ProxyTunnel]
    /\ pc = [s \in Sessions |-> "read"]
    /\ cur = [s \in Sessions |->
                 IF s = "s1" THEN Message("register", TRUE, << "a" >>) ELSE NoMessage]
    /\ sel = [s \in Sessions |-> IF s = "s1" THEN << "a" >> ELSE NoLabel]
    /\ hsub = [s \in Sessions |-> IF s = "s1" THEN << "a" >> ELSE NoLabel]
    /\ htid = [s \in Sessions |-> IF s = "s1" THEN 1 ELSE 0]
    /\ pending = [s \in Sessions |->
                     IF s = "s1" THEN SuccessReply(RegisterResponse(1, << "a" >>))
                     ELSE NoReply]
    /\ sent = [s \in Sessions |->
                  IF s = "s1" THEN << SuccessReply(RegisterResponse(1, << "a" >>)) >>
                  ELSE << >>]
    /\ writeErr = [s \in Sessions |-> FALSE]
    /\ mu = [s \in Sessions |-> NoHolder]
    /\ binaryQueue = [s \in Sessions |-> << >>]
    /\ readBuffer = [s \in Sessions |-> << >>]
    /\ readOffset = [s \in Sessions |-> 0]
    /\ exitErr = [s \in Sessions |-> ""]
    /\ readErr = [s \in Sessions |-> ""]
    /\ connCloses = [s \in Sessions |-> 0]
    /\ uuids = 1
    /\ nframes = 2

ProxyInit ==
    /\ RegisteredInit
    /\ ProxyInitVars
    /\ calls = << >>
    /\ ExtInit

\* the frames the tunnel client sends while requests are proxied
ProxyFrames ==
    { Frame("binary", "", d, FALSE, NoMessage) : d \in Payloads }
        \cup { Frame("err", "eof", << >>, FALSE, NoMessage) }
        \cup { Frame("text", "", << >>, TRUE, Message("ping", TRUE, << >>)) }

ProxySessions == {"s1"}

ProxySpecNext ==
    \/ ProxyNext
    \/ \E s \in ProxySessions : ReadMessageLock(s)
    \/ \E s \in ProxySessions, f \in ProxyFrames : ReadMessage(s, f)
    \/ \E s \in ProxySessions : handleMessage(s)
    \/ \E s \in ProxySessions : send(s)
    \/ \E s \in ProxySessions : HandleMessagesExit(s)
    \/ \E s \in ProxySessions : handleConnectionExit(s)

ProxySpec == ProxyInit /\ [][ProxySpecNext]_vars

\* the Registry alone, as its callers may use it: Register and Unregister
\* called in any order on a registry that starts empty (NewRegistry)
RegistryKeys == { << "a" >>, << "b" >> }

\* one call on the Registry: the method, the subdomain it is about, the
\* tunnel passed to Register and the error returned
Call(op, key, tunnel, err) == [op |-> op, key |-> key, tunnel |-> tunnel, err |-> err]

RegistryRegister(t) ==
    LET res == Register(registry, t) IN
    /\ Len(calls) < MaxCalls
    /\ registry' = res.tunnels
    /\ calls' = Append(calls, Call("Register", t.Subdomain, t, res.err))
    /\ UNCHANGED << pc, cur, sel, hsub, htid, pending, sent, writeErr, mu,
                    binaryQueue, readBuffer, readOffset, exitErr, readErr,
                    connCloses, uuids, nframes >>
    /\ UNCHANGED proxyVars
    /\ UNCHANGED extVars

RegistryUnregister(k) ==
    /\ Len(calls) < MaxCalls
    /\ registry' = Unregister(registry, k)
    /\ calls' = Append(calls, Call("Unregister", k, NoTunnel, NoErr))
    /\ UNCHANGED << pc, cur, sel, hsub, htid, pending, sent, writeErr, mu,
                    binaryQueue, readBuffer, readOffset, exitErr, readErr,
                    connCloses, uuids, nframes >>
    /\ UNCHANGED proxyVars
    /\ UNCHANGED extVars

RegistryNext ==
    \/ \E k \in RegistryKeys, c \in Sessions :
          RegistryRegister(Tunnel(Len(calls) + 1, k, c))
    \/ \E k \in RegistryKeys : RegistryUnregister(k)

RegistrySpec == Init /\ [][RegistryNext]_vars

\* ------------------------------------------------------------------------
\* The mux of the TLS listener (NewCombinedServer)
\* ------------------------------------------------------------------------
\* requests served on the TLS listener
MaxRouted == 2

\* r.URL.Path of the requests, already in canonical form
Paths == {"/health", "/tunnel", "/", "/x"}

\* the Upgrade header of the requests
UpgradeHeaders == {"", "websocket", "WebSocket"}

\* a request on the TLS listener; handshake tells whether the rest of the
\* request (method, Connection, Sec-WebSocket-Version and -Key) is that of
\* a websocket handshake
Request(path, upgrade, handshake) ==
    [path |-> path, upgrade |-> upgrade, handshake |-> handshake]

TLSRequests ==
    { Request(p, u, h) : p \in Paths, u \in UpgradeHeaders, h \in BOOLEAN }

\* upgrader.Upgrade: the Upgrade header holds the token "websocket", in any
\* case, and the rest of the handshake is in order
upgraderUpgrade(req) ==
    /\ req.upgrade \in {"websocket", "WebSocket"}
    /\ req.handshake

\* what a handler did with a request: the handler that served it and the
\* response it wrote (none for handleProxy, which section 4.6 decides)
Routed(req, handler, response) ==
    [req |-> req, handler |-> handler, resp |-> response]

\* Server.handleHealth
handleHealth(req) ==
    Routed(req, "handleHealth", Response(200, "OK\n", NoLabel, "http"))

\* Server.handleWebSocket: the upgrade and go s.handleConnection(conn), or
\* the 400 the upgrader answers when the handshake is not in order
handleWebSocket(req) ==
    IF upgraderUpgrade(req)
    THEN Routed(req, "handleWebSocket", Response(101, "Switching Protocols", NoLabel, "raw"))
    ELSE Routed(req, "handleWebSocket", Response(400, "Bad Request", NoLabel, "http"))

\* handleProxyOrWebSocket that never looks at the Upgrade header
handleProxyOrWebSocketProxyOnly(req) ==
    Routed(req, "handleProxy", NoResponse)

\* CombinedServer.handleProxyOrWebSocket
handleProxyOrWebSocket(req) ==
    IF req.upgrade = "websocket"
    THEN handleWebSocket(req)
    ELSE Routed(req, "handleProxy", NoResponse)

\* the mux of NewCombinedServer: "/tunnel" and "/health" match their path
\* only, "/" matches every other path
ServeMux(req) ==
    CASE req.path = "/tunnel" -> handleWebSocket(req)
      [] req.path = "/health" -> handleHealth(req)
      [] OTHER -> handleProxyOrWebSocket(req)

\* cs.server serves one request
ServeHTTP(req) ==
    /\ Len(routed) < MaxRouted
    /\ routed' = Append(routed, ServeMux(req))
    /\ UNCHANGED << hostLog, checked, timeVars, closeOnce, mainpc, listening, writeVars >>
    /\ UNCHANGED << ctlVars, proxyVars, calls >>

RouteNext == \E req \in TLSRequests : ServeHTTP(req)

\* the TLS listener alone: requests arrive in any order
RouteSpec == Init /\ [][RouteNext]_vars

\* ------------------------------------------------------------------------
\* Keepalive of a control channel (handleConnection: read deadline, pong
\* handler, ticker and ping goroutine), in seconds
\* ------------------------------------------------------------------------
\* seconds the clock runs while the client keeps answering
MaxTime == 175
\* seconds a pong takes at most from the ping's write to the server's read
MaxPongDelay == 2
\* pings counted: further pings are written and leave the count as it is
MaxPings == 3

\* when a session can get its Success, before the first tick
RegTimes == {0, 27, pingPeriod - 1}

KeepaliveSessions == {"s1"}

\* the read error of a conn whose read deadline has passed
DeadlineFrame == Frame("err", "deadline", << >>, FALSE, NoMessage)

\* the ping goroutine: for range ticker.C { wsConn.WritePing() }, and the
\* client, which answers the ping with a pong unless it has gone silent; a
\* failed write ends the goroutine
pingRoutine(s) ==
    /\ pinger = "running"
    /\ pc[s] # "closed"
    /\ now = nextTick
    /\ nextTick' = nextTick + pingPeriod
    /\ \E ok \in connWriteMessage(s) :
          IF ok
          THEN /\ pingsSent' = Min(pingsSent + 1, MaxPings)
               /\ IF silent
                  THEN UNCHANGED pongAt
                  ELSE \E d \in 0..MaxPongDelay : pongAt' = now + d
               /\ UNCHANGED << pinger, writeErr >>
          ELSE /\ pinger' = "returned"
               /\ writeErr' = [writeErr EXCEPT ![s] = TRUE]
               /\ UNCHANGED << pingsSent, pongAt >>
    /\ UNCHANGED << now, readDeadline, silent, regAt >>
    /\ UNCHANGED << registry, pc, cur, sel, hsub, htid, pending, sent, mu,
                    binaryQueue, readBuffer, readOffset, exitErr, readErr,
                    connCloses, uuids, nframes >>
    /\ UNCHANGED << routed, hostLog, checked, closeOnce, mainpc, listening, writeVars >>
    /\ UNCHANGED << proxyVars, calls >>

\* a pong handler that leaves the read deadline as it is
pongHandlerNoReset(s) ==
    /\ pongAt # NoPong
    /\ now >= pongAt
    /\ pc[s] = "reading"
    /\ now <= readDeadline
    /\ connCloses[s] = 0
    /\ readErr[s] = ""
    /\ pongAt' = NoPong
    /\ UNCHANGED << now, readDeadline, nextTick, pingsSent, silent, regAt, pinger >>
    /\ UNCHANGED << routed, hostLog, checked, closeOnce, mainpc, listening, writeVars >>
    /\ UNCHANGED << ctlVars, proxyVars, calls >>

\* the pong handler set by conn.SetPongHandler: the running conn.ReadMessage
\* reads the pong before the deadline and the handler moves the deadline to
\* pongWait from now
pongHandler(s) ==
    /\ pongAt # NoPong
    /\ now >= pongAt
    /\ pc[s] = "reading"
    /\ now <= readDeadline
    /\ connCloses[s] = 0
    /\ readErr[s] = ""
    /\ readDeadline' = now + pongWait
    /\ pongAt' = NoPong
    /\ UNCHANGED << now, nextTick, pingsSent, silent, regAt, pinger >>
    /\ UNCHANGED << routed, hostLog, checked, closeOnce, mainpc, listening, writeVars >>
    /\ UNCHANGED << ctlVars, proxyVars, calls >>

\* the running conn.ReadMessage fails once the read deadline has passed
readTimeout(s) ==
    /\ now >= readDeadline
    /\ ReadMessage(s, DeadlineFrame)

\* the client stops sending: no pong and no other frame from now on
clientSilent ==
    /\ ~silent
    /\ silent' = TRUE
    /\ UNCHANGED << now, readDeadline, nextTick, pingsSent, pongAt, regAt, pinger >>
    /\ UNCHANGED << routed, hostLog, checked, closeOnce, mainpc, listening, writeVars >>
    /\ UNCHANGED << ctlVars, proxyVars, calls >>

\* a step of the server is due now: a handler step, a tick of the ticker, a
\* pong to read or a deadline that has passed
Urgent(s) ==
    \/ pc[s] \in {"read", "handle", "register", "send", "cleanup", "returned"}
    \/ pinger = "running" /\ pc[s] # "closed" /\ now = nextTick
    \/ pc[s] = "reading" /\ now >= readDeadline
    \/ pc[s] = "reading" /\ pongAt # NoPong /\ now >= pongAt

\* one second passes; the steps of the server take no time. The clock stops
\* at MaxTime, or later when the deadline a silent client faces has passed
Tick ==
    /\ \A s \in KeepaliveSessions : ~Urgent(s)
    /\ now < MaxTime \/ (silent /\ \E s \in KeepaliveSessions : pc[s] # "closed")
    /\ now' = now + 1
    /\ UNCHANGED << readDeadline, nextTick, pingsSent, pongAt, silent, regAt, pinger >>
    /\ UNCHANGED << routed, hostLog, checked, closeOnce, mainpc, listening, writeVars >>
    /\ UNCHANGED << ctlVars, proxyVars, calls >>

\* session s1 got its Success at a time of RegTimes and no ping was due yet
KeepaliveInit ==
    /\ RegisteredInit
    /\ ProxyInitVars
    /\ calls = << >>
    /\ ServingInit
    /\ \E t \in RegTimes : KeepaliveStart(t)

KeepaliveNext ==
    \/ Tick
    \/ clientSilent
    \/ \E s \in KeepaliveSessions : pingRoutine(s)
    \/ \E s \in KeepaliveSessions : pongHandler(s)
    \/ \E s \in KeepaliveSessions : ReadMessageLock(s)
    \/ \E s \in KeepaliveSessions : readTimeout(s)
    \/ \E s \in KeepaliveSessions : HandleMessagesExit(s)
    \/ \E s \in KeepaliveSessions : handleConnectionExit(s)

\* a registered session whose client sends nothing but pongs
KeepaliveSpec == KeepaliveInit /\ [][KeepaliveNext]_vars

\* the same where time passes and the goroutines of the session get to run
KeepaliveFairSpec ==
    /\ KeepaliveSpec
    /\ WF_vars(Tick)
    /\ \A s \in KeepaliveSessions :
          /\ WF_vars(pingRoutine(s))
          /\ WF_vars(pongHandler(s))
          /\ WF_vars(ReadMessageLock(s))
          /\ WF_vars(readTimeout(s))
          /\ WF_vars(HandleMessagesExit(s))
          /\ WF_vars(handleConnectionExit(s))

\* when the client sends a frame of its own, in seconds
FrameTimes == {20, 50, 70, 110}

\* the client sends a text or binary frame at one of FrameTimes, unless it has
\* gone silent, and the running conn.ReadMessage returns it before the read
\* deadline has passed
clientFrame(s, f) ==
    /\ ~silent
    /\ now \in FrameTimes
    /\ now <= readDeadline
    /\ f.kind # "err"
    /\ ReadMessage(s, f)

KeepaliveFramesNext ==
    \/ KeepaliveNext
    \/ \E s \in KeepaliveSessions, f \in ProxyFrames : clientFrame(s, f)
    \/ \E s \in KeepaliveSessions : handleMessage(s)
    \/ \E s \in KeepaliveSessions : send(s)

\* a registered session whose client answers the pings and sends frames of
\* its own
KeepaliveFramesSpec == KeepaliveInit /\ [][KeepaliveFramesNext]_vars

\* seconds after the last pong the server has read (or after the start)
\* at which a client with a heartbeat of its own sends the next pong
HeartbeatPeriod == 30

\* the client sends a pong that no ping has asked for (a heartbeat of its
\* own), unless it has gone silent
clientPong ==
    /\ ~silent
    /\ pongAt = NoPong
    /\ now + pongWait = readDeadline + HeartbeatPeriod
    /\ \E d \in 0..MaxPongDelay : pongAt' = now + d
    /\ UNCHANGED << now, readDeadline, nextTick, pingsSent, silent, regAt, pinger >>
    /\ UNCHANGED << routed, hostLog, checked, closeOnce, mainpc, listening, writeVars >>
    /\ UNCHANGED << ctlVars, proxyVars, calls >>

\* one second passes, without end: from MaxTime on the clock is kept where it
\* is and the times ahead (deadline, next tick, pong under way) are moved one
\* second closer instead; a time that has passed stays passed
TickOn ==
    /\ \A s \in KeepaliveSessions : ~Urgent(s)
    /\ IF now < MaxTime
       THEN /\ now' = now + 1
            /\ UNCHANGED << readDeadline, nextTick, pongAt >>
       ELSE /\ now' = now
            /\ readDeadline' = IF readDeadline > 0 THEN readDeadline - 1 ELSE 0
            /\ nextTick' = IF nextTick > 0 THEN nextTick - 1 ELSE 0
            /\ pongAt' = IF pongAt = NoPong THEN NoPong
                         ELSE IF pongAt > 0 THEN pongAt - 1 ELSE 0
    /\ UNCHANGED << pingsSent, silent, regAt, pinger >>
    /\ UNCHANGED << routed, hostLog, checked, closeOnce, mainpc, listening, writeVars >>
    /\ UNCHANGED << ctlVars, proxyVars, calls >>

HeartbeatNext ==
    \/ TickOn
    \/ clientSilent
    \/ clientPong
    \/ \E s \in KeepaliveSessions : pingRoutine(s)
    \/ \E s \in KeepaliveSessions : pongHandler(s)
    \/ \E s \in KeepaliveSessions : ReadMessageLock(s)
    \/ \E s \in KeepaliveSessions : readTimeout(s)
    \/ \E s \in KeepaliveSessions : HandleMessagesExit(s)
    \/ \E s \in KeepaliveSessions : handleConnectionExit(s)

\* a registered session whose client answers pings, sends pongs of its own
\* or goes silent, as it chooses, while time passes and every goroutine of
\* the session gets to run
HeartbeatFairSpec ==
    /\ KeepaliveInit
    /\ [][HeartbeatNext]_vars
    /\ SF_vars(TickOn)
    /\ \A s \in KeepaliveSessions :
          /\ WF_vars(pingRoutine(s))
          /\ WF_vars(pongHandler(s))
          /\ WF_vars(ReadMessageLock(s))
          /\ WF_vars(readTimeout(s))
          /\ WF_vars(HandleMessagesExit(s))
          /\ WF_vars(handleConnectionExit(s))

\* ------------------------------------------------------------------------
\* Certificate manager (cert.NewManager: the HostPolicy of autocert)
\* ------------------------------------------------------------------------
\* server names put to the HostPolicy
MaxHostChecks == 2

\* hello.ServerName of the handshakes: names that are no host names, the
\* base domain and names under it and elsewhere
ServerNames ==
    { << >>,
      << "l", "o", "c", "a", "l", "h", "o", "s", "t" >>,
      << "1", "2", "7", ".", "0", ".", "0", ".", "1" >>,
      << ":", ":", "1" >>,
      << "1", "0", ".", "0", ".", "0", ".", "1" >>,
      << "1", "2", "7", ".", "0", ".", "0", ".", "2" >>,
      << "2", "0", "0", "1", ":", "d", "b", "8", ":", ":", "1" >>,
      Domain,
      << "a", "." >> \o Domain,
      << "t", ".", "c", "o" >> }

\* HostPolicy: "localhost", "127.0.0.1", "::1" and "" are refused, the base
\* domain and every other name are allowed
HostPolicy(host) ==
    IF \/ host = << "l", "o", "c", "a", "l", "h", "o", "s", "t" >>
       \/ host = << "1", "2", "7", ".", "0", ".", "0", ".", "1" >>
       \/ host = << ":", ":", "1" >>
       \/ host = << >>
    THEN Err("", "certificates not supported for %s", host, "")
    ELSE NoErr

\* one name put to the policy: the verdict and whether autocert went on to
\* request a certificate, which it does when the policy returns nil
HostCheck(host, err, acquired) == [host |-> host, err |-> err, acquired |-> acquired]

\* autocertManager.GetCertificate for a name it holds no certificate for:
\* the HostPolicy, then the request to the provider
GetCertificate(host) ==
    /\ Len(hostLog) < MaxHostChecks
    /\ hostLog' = Append(hostLog, HostCheck(host, HostPolicy(host), HostPolicy(host) = NoErr))
    /\ UNCHANGED << routed, checked, timeVars, closeOnce, mainpc, listening, writeVars >>
    /\ UNCHANGED << ctlVars, proxyVars, calls >>

CertNext == \E host \in ServerNames : GetCertificate(host)

\* the certificate manager alone: handshakes with any server names
CertSpec == Init /\ [][CertNext]_vars

\* ------------------------------------------------------------------------
\* Close of a control channel (Connection.Close)
\* ------------------------------------------------------------------------
CloseSessions == {"s1"}

\* a call of Connection.Close on the channel of session s
CloseCall(s) == Call("Close", NoLabel, Tunnel(0, NoLabel, s), NoErr)

\* Connection.Close, called by any holder of the Connection at any time:
\* c.closeOnce.Do(func() { err = c.conn.Close() })
ConnectionClose(s) ==
    /\ Len(calls) < MaxCalls
    /\ calls' = Append(calls, CloseCall(s))
    /\ closeOnce' = [closeOnce EXCEPT ![s] = TRUE]
    /\ connCloses' = IF closeOnce[s] THEN connCloses
                     ELSE [connCloses EXCEPT ![s] = @ + 1]
    /\ UNCHANGED << registry, pc, cur, sel, hsub, htid, pending, sent, writeErr, mu,
                    binaryQueue, readBuffer, readOffset, exitErr, readErr, uuids,
                    nframes >>
    /\ UNCHANGED << routed, hostLog, checked, timeVars, mainpc, listening, writeVars >>
    /\ UNCHANGED proxyVars

CloseNext ==
    \/ \E s \in CloseSessions : ConnectionClose(s)
    \/ \E s \in CloseSessions : ReadMessageLock(s)
    \/ \E s \in CloseSessions, f \in ProxyFrames \cup {ClosedFrame} : ReadMessage(s, f)
    \/ \E s \in CloseSessions : handleMessage(s)
    \/ \E s \in CloseSessions : send(s)
    \/ \E s \in CloseSessions : HandleMessagesExit(s)
    \/ \E s \in CloseSessions : handleConnectionExit(s)

\* a registered session on whose channel Close is called at any time, any
\* number of times
CloseSpec == ProxyInit /\ [][CloseNext]_vars

\* ------------------------------------------------------------------------
\* Shutdown (main of cmd/server, CombinedServer.Shutdown)
\* ------------------------------------------------------------------------
ShutdownSessions == {"s1"}

\* the process has not exited: its goroutines run
Running == mainpc # "exited"

\* main, <-sigChan: SIGINT or SIGTERM has arrived
signalNotify ==
    /\ mainpc = "serving"
    /\ mainpc' = "signalled"
    /\ UNCHANGED << routed, hostLog, checked, timeVars, closeOnce, listening, writeVars >>
    /\ UNCHANGED << ctlVars, proxyVars, calls >>

\* CombinedServer.Shutdown: cs.httpServer.Shutdown(ctx) and
\* cs.server.Shutdown(ctx). http.Server.Shutdown closes the listener and the
\* idle connections and waits for the active ones; connections that were
\* hijacked, the control channels among them, are neither closed nor waited
\* for
Shutdown ==
    /\ mainpc = "signalled"
    /\ listening' = [l \in Listeners |-> FALSE]
    /\ mainpc' = "stopped"
    /\ UNCHANGED << routed, hostLog, checked, timeVars, closeOnce, writeVars >>
    /\ UNCHANGED << ctlVars, proxyVars, calls >>

\* main, os.Exit(0): the process ends with all its goroutines
osExit ==
    /\ mainpc = "stopped"
    /\ mainpc' = "exited"
    /\ UNCHANGED << routed, hostLog, checked, timeVars, closeOnce, listening, writeVars >>
    /\ UNCHANGED << ctlVars, proxyVars, calls >>

ShutdownNext ==
    \/ signalNotify
    \/ Shutdown
    \/ osExit
    \/ \E s \in ShutdownSessions : Running /\ ReadMessageLock(s)
    \/ \E s \in ShutdownSessions, f \in Frames : Running /\ ReadMessage(s, f)
    \/ \E s \in ShutdownSessions : Running /\ handleMessage(s)
    \/ \E s \in ShutdownSessions : Running /\ handleRegisterTunnel(s)
    \/ \E s \in ShutdownSessions : Running /\ send(s)
    \/ \E s \in ShutdownSessions : Running /\ HandleMessagesExit(s)
    \/ \E s \in ShutdownSessions : Running /\ handleConnectionExit(s)

\* the server and one control channel, from start-up to the exit of the
\* process
ShutdownSpec == Init /\ [][ShutdownNext]_vars

\* ------------------------------------------------------------------------
\* The subdomain policy on its own (Normalize, then Validate)
\* ------------------------------------------------------------------------
\* length of the strings tried in full
MaxLen == 3

\* the characters of those strings
CheckAlphabet == {"a", "A", "-", "0", " "}

\* labels of 63 characters: letters only, and with a hyphen at the end
Label63 == [i \in 1..63 |-> "a"]

Label63Hyphen == [i \in 1..63 |-> IF i = 63 THEN "-" ELSE "a"]

\* the strings put through the policy: every string over CheckAlphabet up to
\* MaxLen, the long labels, and reserved names as clients may write them
CheckInputs ==
    UNION { [1..n -> CheckAlphabet] : n \in 0..MaxLen }
        \cup { Label63, Label63Hyphen, LongLabel,
               << "w", "w", "w" >>, << " ", "W", "w", "w" >>, << "a", "p", "i" >> }

\* one application: the string, its normal form and the error of Validate
Checked(input, normalized, err) ==
    [input |-> input, normalized |-> normalized, err |-> err]

\* subdomain.Validate(subdomain.Normalize(s)), as handleRegister calls them
NormalizeValidate(s) ==
    /\ checked = << >>
    /\ checked' = << Checked(s, Normalize(s), Validate(Normalize(s))) >>
    /\ UNCHANGED << routed, hostLog, timeVars, closeOnce, mainpc, listening, writeVars >>
    /\ UNCHANGED << ctlVars, proxyVars, calls >>

SubdomainNext == \E s \in CheckInputs : NormalizeValidate(s)

SubdomainSpec == Init /\ [][SubdomainNext]_vars

\* ------------------------------------------------------------------------
\* One proxied request on one control channel, from start-up
\* ------------------------------------------------------------------------
DataSessions == {"s1"}

DataRequests == {"r1"}

\* the Host header of the request: the subdomain the session registers
DataHost == << "a", "." >> \o Domain

\* the frames the tunnel client sends: its Register, the bytes of the
\* response, a Ping, and the end of the connection
DataFrames ==
    { Frame("text", "", << >>, TRUE, Message("register", TRUE, << "a" >>)),
      Frame("text", "", << >>, TRUE, Message("ping", TRUE, << >>)),
      Frame("err", "eof", << >>, FALSE, NoMessage) }
        \cup { Frame("binary", "", d, FALSE, NoMessage) : d \in Payloads }

DataNext ==
    \/ \E s \in DataSessions : ReadMessageLock(s)
    \/ \E s \in DataSessions, f \in DataFrames : ReadMessage(s, f)
    \/ \E s \in DataSessions : handleMessage(s)
    \/ \E s \in DataSessions : handleRegisterTunnel(s)
    \/ \E s \in DataSessions : send(s)
    \/ \E s \in DataSessions : HandleMessagesExit(s)
    \/ \E s \in DataSessions : handleConnectionExit(s)
    \/ \E r \in DataRequests : handleProxy(r, DataHost, "ok")
    \/ \E r \in DataRequests : DialThroughTunnel(r)
    \/ \E r \in DataRequests : writeRequest(r)
    \/ \E r \in DataRequests : copyClientRead(r)
    \/ \E r \in DataRequests : copyTunnelWrite(r)
    \/ \E r \in DataRequests : VirtualConnectionRead(r)
    \/ \E r \in DataRequests : ConnectionRead(r)
    \/ \E r \in DataRequests, f \in DataFrames \cup {ClosedFrame} :
          ConnectionReadFrame(r, f)
    \/ \E r \in DataRequests : copyClientWrite(r)
    \/ \E r \in DataRequests : CopyBidirectionalClose(r)
    \/ \E r \in DataRequests : CopyBidirectionalReturn(r)

\* the control channel of s1 and the public request r1, with every
\* interleaving of the control reader and the data path
DataSpec == Init /\ [][DataNext]_vars

\* the same where every goroutine of the server gets to run: each step of the
\* session handler and of the forwarding goroutine and its copiers is taken
\* once it can be, and a read of a conn that is closed or has failed returns.
\* What the tunnel client sends, and when, is left to the client
DataFairSpec ==
    /\ DataSpec
    /\ \A s \in DataSessions :
          /\ WF_vars(ReadMessageLock(s))
          /\ WF_vars(handleMessage(s))
          /\ WF_vars(handleRegisterTunnel(s))
          /\ WF_vars(send(s))
          /\ WF_vars(HandleMessagesExit(s))
          /\ WF_vars(handleConnectionExit(s))
          /\ WF_vars(connReadFails(s)
                        /\ \E f \in DataFrames \cup {ClosedFrame} : ReadMessage(s, f))
    /\ \A r \in DataRequests :
          /\ WF_vars(DialThroughTunnel(r))
          /\ WF_vars(writeRequest(r))
          /\ WF_vars(copyClientRead(r))
          /\ WF_vars(copyTunnelWrite(r))
          /\ WF_vars(VirtualConnectionRead(r))
          /\ WF_vars(ConnectionRead(r))
          /\ WF_vars(copyClientWrite(r))
          /\ WF_vars(CopyBidirectionalClose(r))
          /\ WF_vars(CopyBidirectionalReturn(r))
          /\ WF_vars(connReadFails(rtun[r].WSConn)
                        /\ \E f \in DataFrames \cup {ClosedFrame} :
                              ConnectionReadFrame(r, f))

\* ------------------------------------------------------------------------
\* Writes on one control channel (Connection.WriteMessage, WritePing, Write
\* under VirtualConnection.Write, and VirtualConnection.Close)
\* ------------------------------------------------------------------------
\* pieces of frames the conn puts on the wire
MaxStream == 6

\* the frame a writer writes: websocket.TextMessage, PingMessage or
\* BinaryMessage
FrameKind(w) ==
    IF w = "handler" THEN "text" ELSE IF w = "pinger" THEN "ping" ELSE "binary"

\* a writer calls its write method: Handler.send -> Connection.WriteMessage,
\* the ping goroutine WritePing, io.Copy of a request VirtualConnection.Write
WriteCall(w) ==
    /\ wpc[w] = "idle"
    /\ Len(stream) + 2 <= MaxStream
    /\ wpc' = [wpc EXCEPT ![w] = IF w \in Requests THEN "vcheck" ELSE "lock"]
    /\ UNCHANGED << writeMu, stream >>
    /\ UNCHANGED << routed, hostLog, checked, timeVars, closeOnce, mainpc, listening >>
    /\ UNCHANGED << ctlVars, proxyVars, calls >>

\* VirtualConnection.Write, the test of v.closed under v.mu: ErrClosedPipe
\* when closed, otherwise v.mu is released and underlying.Write follows
VirtualConnectionWriteCheck(r) ==
    /\ wpc[r] = "vcheck"
    /\ IF vclosed[r]
       THEN /\ wpc' = [wpc EXCEPT ![r] = "idle"]
            /\ c2tErr' = [c2tErr EXCEPT ![r] = "ErrClosedPipe"]
       ELSE /\ wpc' = [wpc EXCEPT ![r] = "lock"]
            /\ UNCHANGED c2tErr
    /\ UNCHANGED << writeMu, stream >>
    /\ UNCHANGED << rpc, rsub, rtun, resp, vclosed, c2t, t2c, c2tBuf, t2cBuf, t2cErr,
                    clientCloses, rcvd, nchunks, wire >>
    /\ UNCHANGED << routed, hostLog, checked, timeVars, closeOnce, mainpc, listening >>
    /\ UNCHANGED << ctlVars, calls >>

\* a write method that does not wait for c.writeMu
writeMuLockNoWait(w) ==
    /\ wpc[w] = "lock"
    /\ writeMu' = w
    /\ wpc' = [wpc EXCEPT ![w] = "head"]
    /\ UNCHANGED stream
    /\ UNCHANGED << routed, hostLog, checked, timeVars, closeOnce, mainpc, listening >>
    /\ UNCHANGED << ctlVars, proxyVars, calls >>

\* c.writeMu.Lock() of WriteMessage, WriteBinary, WritePing and Write
writeMuLock(w) ==
    /\ wpc[w] = "lock"
    /\ writeMu = NoHolder
    /\ writeMu' = w
    /\ wpc' = [wpc EXCEPT ![w] = "head"]
    /\ UNCHANGED stream
    /\ UNCHANGED << routed, hostLog, checked, timeVars, closeOnce, mainpc, listening >>
    /\ UNCHANGED << ctlVars, proxyVars, calls >>

\* c.conn.WriteMessage(kind, data): the frame goes on the wire in two pieces,
\* its header and its payload; each piece is marked with the writer, and for
\* a request with v.closed of its virtual connection at that moment
connWriteFrame(w) ==
    /\ wpc[w] \in {"head", "body"}
    /\ stream' = Append(stream, [writer |-> w, kind |-> FrameKind(w), part |-> wpc[w],
                                 closed |-> w \in Requests /\ vclosed[w]])
    /\ wpc' = [wpc EXCEPT ![w] = IF wpc[w] = "head" THEN "body" ELSE "unlock"]
    /\ UNCHANGED writeMu
    /\ UNCHANGED << routed, hostLog, checked, timeVars, closeOnce, mainpc, listening >>
    /\ UNCHANGED << ctlVars, proxyVars, calls >>

\* the deferred c.writeMu.Unlock(): the write method returns
writeMuUnlock(w) ==
    /\ wpc[w] = "unlock"
    /\ writeMu' = NoHolder
    /\ wpc' = [wpc EXCEPT ![w] = "idle"]
    /\ UNCHANGED stream
    /\ UNCHANGED << routed, hostLog, checked, timeVars, closeOnce, mainpc, listening >>
    /\ UNCHANGED << ctlVars, proxyVars, calls >>

\* VirtualConnection.Close called on the request's tunnelConn, by
\* CopyBidirectional or the deferred Close, whatever its writer is doing
tunnelConnClose(r) ==
    /\ ~vclosed[r]
    /\ VirtualConnectionClose(r)
    /\ UNCHANGED << rpc, rsub, rtun, resp, c2t, t2c, c2tBuf, t2cBuf, c2tErr, t2cErr,
                    clientCloses, rcvd, nchunks, wire >>
    /\ UNCHANGED << registry, pc, cur, sel, hsub, htid, pending, sent, writeErr, mu,
                    binaryQueue, readBuffer, readOffset, exitErr, readErr, uuids,
                    nframes >>
    /\ UNCHANGED << calls, extVars >>

WriteNext ==
    \/ \E w \in Writers : WriteCall(w)
    \/ \E r \in Requests : VirtualConnectionWriteCheck(r)
    \/ \E w \in Writers : writeMuLock(w)
    \/ \E w \in Writers : connWriteFrame(w)
    \/ \E w \in Writers : writeMuUnlock(w)
    \/ \E r \in Requests : tunnelConnClose(r)

\* the writers of one control channel, in every interleaving
WriteSpec == Init /\ [][WriteNext]_vars

\* ------------------------------------------------------------------------
\* Ownership of registry entries (handleUnregister, the cleanup of
\* HandleMessages, Registry.Unregister)
\* ------------------------------------------------------------------------
\* the frames the clients send here: Register of "a", Register with an empty
\* subdomain, Unregister, and the end of the connection
OwnerFrames ==
    { Frame("text", "", << >>, TRUE, Message("register", TRUE, sub)) :
          sub \in { << "a" >>, << >> } }
        \cup { Frame("text", "", << >>, TRUE, Message("unregister", TRUE, << >>)) }
        \cup { Frame("err", "eof", << >>, FALSE, NoMessage) }

\* session s1 holds "a" and waits for its next frame, session s2 holds
\* nothing; the frames are counted from this state on
OwnerInit ==
    /\ registry = [k \in {<< "a" >>} |-> ProxyTunnel]
    /\ pc = [s \in Sessions |-> "read"]
    /\ cur = [s \in Sessions |->
                 IF s = "s1" THEN Message("register", TRUE, << "a" >>) ELSE NoMessage]
    /\ sel = [s \in Sessions |-> IF s = "s1" THEN << "a" >> ELSE NoLabel]
    /\ hsub = [s \in Sessions |-> IF s = "s1" THEN << "a" >> ELSE NoLabel]
    /\ htid = [s \in Sessions |-> IF s = "s1" THEN 1 ELSE 0]
    /\ pending = [s \in Sessions |->
                     IF s = "s1" THEN SuccessReply(RegisterResponse(1, << "a" >>))
                     ELSE NoReply]
    /\ sent = [s \in Sessions |->
                  IF s = "s1" THEN << SuccessReply(RegisterResponse(1, << "a" >>)) >>
                  ELSE << >>]
    /\ writeErr = [s \in Sessions |-> FALSE]
    /\ mu = [s \in Sessions |-> NoHolder]
    /\ binaryQueue = [s \in Sessions |-> << >>]
    /\ readBuffer = [s \in Sessions |-> << >>]
    /\ readOffset = [s \in Sessions |-> 0]
    /\ exitErr = [s \in Sessions |-> ""]
    /\ readErr = [s \in Sessions |-> ""]
    /\ connCloses = [s \in Sessions |-> 0]
    /\ uuids = 1
    /\ nframes = 0
    /\ ProxyInitVars
    /\ calls = << >>
    /\ ExtInit

OwnerNext ==
    \/ \E s \in Sessions : ReadMessageLock(s)
    \/ \E s \in Sessions, f \in OwnerFrames : ReadMessage(s, f)
    \/ \E s \in Sessions : handleMessage(s)
    \/ \E s \in Sessions : handleRegisterTunnel(s)
    \/ \E s \in Sessions : send(s)
    \/ \E s \in Sessions : HandleMessagesExit(s)
    \/ \E s \in Sessions : handleConnectionExit(s)

\* two sessions that register, unregister and disconnect in any order
OwnerSpec == OwnerInit /\ [][OwnerNext]_vars

\* ------------------------------------------------------------------------
\* Properties
\* ------------------------------------------------------------------------
\* the receive loop of the session is running
Live(s) == pc[s] \notin {"cleanup", "returned", "closed"}

\* the session state "Registered"
Registered(s) == Live(s) /\ hsub[s] # NoLabel

\* the handler has decided its reply to the Register in cur[s]; pending[s] is
\* that reply
DecidedRegister(s) == cur[s].type = "register" /\ pc[s] \in {"send", "read"}

\* a Register for a custom subdomain that passes validation
CustomRegister(m) ==
    /\ m.type = "register"
    /\ m.payloadOK
    /\ m.sub # << >>
    /\ Validate(Normalize(m.sub)) = NoErr

\* C1: no two running sessions hold the same subdomain, and the subdomain a
\* running session holds is mapped by the registry to that session's tunnel
C1_OneSessionPerSubdomain ==
    \A s1 \in Sessions :
        Registered(s1) =>
            /\ Get(registry, hsub[s1]).exists
            /\ Get(registry, hsub[s1]).tunnel.WSConn = s1
            /\ Get(registry, hsub[s1]).tunnel.ID = htid[s1]
            /\ \A s2 \in Sessions \ {s1} : Registered(s2) => hsub[s2] # hsub[s1]

\* C1 witness: a session holds a subdomain and another session's Register of
\* that subdomain has been refused
C1_Witness ==
    \E s1, s2 \in Sessions :
        /\ s1 # s2
        /\ Registered(s1)
        /\ DecidedRegister(s2)
        /\ pending[s2].type = "error"
        /\ pending[s2].error.sub = hsub[s1]
        /\ hsub[s2] = NoLabel

\* C2: of two sessions whose Register for the same custom subdomain is being
\* answered, at most one gets Success; and when these two Registers are all
\* the traffic there has been, exactly one gets Success and the other an Error
C2_OneWinner ==
    \A s1, s2 \in Sessions :
        ( /\ s1 # s2
          /\ DecidedRegister(s1) /\ DecidedRegister(s2)
          /\ CustomRegister(cur[s1]) /\ CustomRegister(cur[s2])
          /\ Normalize(cur[s1].sub) = Normalize(cur[s2].sub) )
        => /\ ~(pending[s1].type = "success" /\ pending[s2].type = "success")
           /\ nframes = 2 =>
                 /\ {pending[s1].type, pending[s2].type} = {"success", "error"}
                 /\ Get(registry, Normalize(cur[s1].sub)).exists

\* C2 witness: both sessions passed IsSubdomainAvailable, one Register call
\* inserted and the other returned "already in use"
C2_Witness ==
    \E s1, s2 \in Sessions :
        /\ s1 # s2
        /\ DecidedRegister(s1) /\ DecidedRegister(s2)
        /\ Normalize(cur[s1].sub) = Normalize(cur[s2].sub)
        /\ pending[s1].type = "success"
        /\ pending[s2].type = "error"
        /\ pending[s2].error.wrap = "failed to register tunnel: %w"
        /\ nframes = 2

\* C3 (as claimed): a step of handleRegister in a session that is Registered
\* changes neither the registry nor the session's subdomain and tunnel id, and
\* the reply it prepares is an Error
C3_RegisterWhenRegistered ==
    [][ \A s \in Sessions :
          ( /\ cur[s].type = "register"
            /\ pc[s] \in {"handle", "register"}
            /\ hsub[s] # NoLabel
            /\ pc'[s] # pc[s] )
          => /\ registry' = registry
             /\ hsub'[s] = hsub[s]
             /\ htid'[s] = htid[s]
             /\ pc'[s] = "send" => pending'[s].type = "error" ]_vars

\* C4: once HandleMessages has returned, the subdomain the session held is
\* not mapped to the session any more
C4_ExitUnregisters ==
    \A s \in Sessions :
        (pc[s] \in {"returned", "closed"} /\ hsub[s] # NoLabel)
        => \/ ~Get(registry, hsub[s]).exists
           \/ Get(registry, hsub[s]).tunnel.WSConn # s

\* C4 witness: a Registered session's loop has exited on a read error and a
\* Get of its subdomain reports it absent
C4_Witness ==
    \E s \in Sessions :
        /\ pc[s] = "returned"
        /\ hsub[s] # NoLabel
        /\ exitErr[s] \in TransportErrors
        /\ ~Get(registry, hsub[s]).exists

\* C5 (as claimed): no registry entry refers to a session whose receive loop
\* has exited
C5_EntriesAreLive ==
    \A s \in Sessions :
        pc[s] \in {"returned", "closed"}
        => \A k \in DOMAIN registry : registry[k].WSConn # s

\* C6 (as claimed): the receive loop ends only on a failure of the transport,
\* never on a text frame the server cannot accept
C6_OnlyTransportEnds ==
    \A s \in Sessions : ~Live(s) => exitErr[s] \in TransportErrors

\* the request owns a hijacked connection and its goroutine has not returned
InFlight(r) == rpc[r] \in {"dial", "writeReq", "splice", "wait2"}

\* C7 (as claimed): two proxied requests are never in flight on one session
C7_OneRequestPerSession ==
    \A r1, r2 \in Requests :
        (r1 # r2 /\ InFlight(r1) /\ InFlight(r2))
        => rtun[r1].WSConn # rtun[r2].WSConn

\* C8: a step that closes a request's virtual connection (the closes of
\* CopyBidirectional and the deferred ones) calls no Close on the underlying
\* connection; a Read of the closed virtual connection returns EOF without
\* reading the underlying connection; a Write on it returns the closed error
\* and puts no frame on the channel
C8_VirtualCloseIsLocal ==
    [][ \A r \in Requests :
          /\ (rpc'[r] # rpc[r] /\ rpc'[r] \in {"wait2", "finished"})
             => (vclosed'[r] /\ connCloses' = connCloses)
          /\ (vclosed[r] /\ t2c[r] = "vread" /\ t2c'[r] # t2c[r])
             => /\ t2c'[r] = "done"
                /\ t2cErr'[r] = "EOF"
                /\ UNCHANGED << mu, nframes, binaryQueue, readBuffer, readOffset >>
          /\ (vclosed[r] /\ c2t[r] = "write" /\ c2t'[r] # c2t[r])
             => /\ c2tErr'[r] = "ErrClosedPipe"
                /\ UNCHANGED << wire, writeErr >> ]_vars

\* C8 witness: the virtual connection was closed twice, a Write after the
\* close got the closed error, and the session's connection is still open
\* with its receive loop running
C8_Witness ==
    \E r \in Requests :
        /\ rpc[r] = "finished"
        /\ vclosed[r]
        /\ clientCloses[r] = 2
        /\ c2tErr[r] = "ErrClosedPipe"
        /\ connCloses[rtun[r].WSConn] = 0
        /\ Live(rtun[r].WSConn)

\* C9: while a Ping is handled nothing has been written yet, the handling
\* changes neither the registry nor the session's subdomain and tunnel id and
\* does not end the loop, and once it is handled the frames written are
\* exactly one Pong (none when the write on the channel failed)
C9_PingPong ==
    /\ [](\A s \in Sessions :
            cur[s].type = "ping" =>
                /\ pc[s] \in {"handle", "send"} => sent[s] = << >>
                /\ pc[s] = "send" => pending[s] = Pong
                /\ pc[s] \in {"read", "reading"} =>
                      sent[s] = IF writeErr[s] THEN << >> ELSE << Pong >>)
    /\ [][ \A s \in Sessions :
             (cur[s].type = "ping" /\ pc[s] \in {"handle", "send"} /\ pc'[s] # pc[s])
             => /\ registry' = registry
                /\ hsub' = hsub
                /\ htid' = htid
                /\ pc'[s] \in {"send", "read"} ]_vars

\* C9 witness: a Registered session and a session in Handshaking have each
\* answered a Ping with one Pong
C9_Witness ==
    \E s1, s2 \in Sessions :
        /\ Registered(s1) /\ Live(s2) /\ hsub[s2] = NoLabel
        /\ cur[s1].type = "ping" /\ cur[s2].type = "ping"
        /\ pc[s1] = "read" /\ pc[s2] = "read"
        /\ sent[s1] = << Pong >> /\ sent[s2] = << Pong >>

\* C10: the Register call of handleRegister inserts the tunnel exactly when
\* its subdomain is absent, leaving every other entry as it was; when the
\* subdomain is present it returns "already in use" and the registry, the
\* owner included, stays as it was
C10_RegisterIffAbsent ==
    [][ \A s \in Sessions :
          (pc[s] = "register" /\ pc'[s] # pc[s])
          => IF Get(registry, sel[s]).exists
             THEN /\ registry' = registry
                  /\ pending'[s].type = "error"
                  /\ pending'[s].error.text = "subdomain '%s' is already in use"
                  /\ pending'[s].error.sub = sel[s]
             ELSE /\ DOMAIN registry' = DOMAIN registry \cup {sel[s]}
                  /\ registry'[sel[s]].WSConn = s
                  /\ registry'[sel[s]].Subdomain = sel[s]
                  /\ \A k \in DOMAIN registry : registry'[k] = registry[k]
                  /\ pending'[s].type = "success" ]_vars

\* C10 witness: Register returned "already in use" for a subdomain another
\* session owns, and that owner is still in the registry
C10_Witness ==
    \E s \in Sessions :
        /\ pc[s] = "send"
        /\ pending[s].type = "error"
        /\ pending[s].error.wrap = "failed to register tunnel: %w"
        /\ Get(registry, sel[s]).exists
        /\ Get(registry, sel[s]).tunnel.WSConn # s

\* the calls made on subdomain k, in order
CallsOn(k) == SelectSeq(calls, LAMBDA c : c.key = k)

\* C11: when the last call on a subdomain is an Unregister (the first or a
\* repeated one), Get reports it absent and IsSubdomainAvailable is true; a
\* Register that is the first call on a subdomain or follows an Unregister of
\* it succeeds; and an Unregister leaves the entry of every other subdomain
\* as it was
C11_UnregisterIdempotent ==
    /\ [](\A k \in RegistryKeys :
            LET cs == CallsOn(k) IN
            /\ (cs # << >> /\ cs[Len(cs)].op = "Unregister")
               => /\ ~Get(registry, k).exists
                  /\ IsSubdomainAvailable(registry, k)
            /\ \A i \in 1..Len(cs) :
                  (cs[i].op = "Register" /\ (i = 1 \/ cs[i - 1].op = "Unregister"))
                  => cs[i].err = NoErr
            /\ (cs # << >> /\ cs[Len(cs)].op = "Register" /\ cs[Len(cs)].err = NoErr)
               => Get(registry, k) = [tunnel |-> cs[Len(cs)].tunnel, exists |-> TRUE])
    /\ [][ (Len(calls') = Len(calls) + 1 /\ calls'[Len(calls')].op = "Unregister")
           => \A j \in RegistryKeys \ {calls'[Len(calls')].key} :
                 Get(registry', j) = Get(registry, j) ]_vars

\* C11 witness: Register, Unregister, Unregister, Register of one subdomain,
\* both Registers successful, while another subdomain keeps its entry
C11_Witness ==
    \E k, j \in RegistryKeys :
        /\ k # j
        /\ Len(CallsOn(k)) = 4
        /\ [i \in 1..4 |-> CallsOn(k)[i].op]
              = << "Register", "Unregister", "Unregister", "Register" >>
        /\ \A i \in 1..4 : CallsOn(k)[i].err = NoErr
        /\ Get(registry, k).tunnel = CallsOn(k)[4].tunnel
        /\ calls[1].key = j
        /\ Get(registry, j) = [tunnel |-> calls[1].tunnel, exists |-> TRUE]

\* C12: every key of the registry is a label of 1 to 63 characters, all of
\* them lowercase letters, digits or hyphens, the first and the last a letter
\* or a digit, and is none of the reserved names; the tunnel stored under a
\* key carries that key as its subdomain
C12_RegistryKeysValid ==
    \A k \in DOMAIN registry :
        /\ Len(k) >= 1 /\ Len(k) <= 63
        /\ \A i \in 1..Len(k) :
              k[i] \in Range(LowerLetters) \cup Range(Digits) \cup {"-"}
        /\ k[1] # "-" /\ k[Len(k)] # "-"
        /\ k \notin { << "w", "w", "w" >>, << "a", "p", "i" >>,
                      << "a", "d", "m", "i", "n" >>, << "m", "a", "i", "l" >>,
                      << "f", "t", "p" >>,
                      << "l", "o", "c", "a", "l", "h", "o", "s", "t" >> }
        /\ registry[k].Subdomain = k

\* C12 witness: the registry holds a key a client asked for with a capital
\* letter and a space and a key the server generated, after a Register for a
\* reserved name was refused
C12_Witness ==
    \E s1, s2 \in Sessions :
        /\ s1 # s2
        /\ cur[s1].sub = << " ", "A" >> /\ hsub[s1] = << "a" >>
        /\ Get(registry, << "a" >>).exists
        /\ \E g \in Generate : Get(registry, g).exists
        /\ cur[s2].sub = << "w", "w", "w" >>
        /\ pending[s2].type = "error" /\ pc[s2] = "read"
        /\ Count(registry) = 2

\* C13: the handling of an Unregister in a session that holds no subdomain
\* prepares the Error "no tunnel registered" and leaves the registry and the
\* session as they were; in a session that holds a subdomain it removes that
\* key and no other from the registry, clears the session's subdomain and
\* tunnel id and prepares a Success; and a Register call made by a session
\* that holds no subdomain, for a subdomain that is absent, succeeds
C13_UnregisterByState ==
    [][ \A s \in Sessions :
          /\ (pc[s] = "handle" /\ cur[s].type = "unregister" /\ pc'[s] # pc[s])
             => /\ pc'[s] = "send"
                /\ IF hsub[s] = NoLabel
                   THEN /\ pending'[s] =
                             ErrorReply(Err("", "no tunnel registered", NoLabel, ""))
                        /\ registry' = registry
                        /\ hsub'[s] = NoLabel
                        /\ htid'[s] = htid[s]
                   ELSE /\ DOMAIN registry' = DOMAIN registry \ {hsub[s]}
                        /\ \A k \in DOMAIN registry' : registry'[k] = registry[k]
                        /\ hsub'[s] = NoLabel
                        /\ htid'[s] = 0
                        /\ pending'[s].type = "success"
          /\ ( /\ pc[s] = "register" /\ pc'[s] # pc[s]
               /\ hsub[s] = NoLabel /\ ~Get(registry, sel[s]).exists )
             => /\ pending'[s].type = "success"
                /\ hsub'[s] = sel[s]
                /\ Get(registry', sel[s]).exists
                /\ Get(registry', sel[s]).tunnel.WSConn = s ]_vars

\* C13 witness: one session has sent Register, Unregister and Register of
\* "a" again, the other session nothing; the second Register got its Success
\* and the registry holds the second tunnel only
C13_Witness ==
    \E s \in Sessions :
        /\ nframes = 3 /\ uuids = 2
        /\ \A o \in Sessions \ {s} : cur[o] = NoMessage
        /\ cur[s].type = "register"
        /\ pc[s] = "read"
        /\ sent[s] = << SuccessReply(RegisterResponse(2, << "a" >>)) >>
        /\ hsub[s] = << "a" >> /\ htid[s] = 2
        /\ Count(registry) = 1
        /\ Get(registry, << "a" >>).tunnel = Tunnel(2, << "a" >>, s)

\* the Error whose text is "subdomain '<name>' is already in use", no prefix
InUseError(name) == ErrorReply(Err("", "subdomain '%s' is already in use", name, ""))

ReservedNames ==
    { << "w", "w", "w" >>, << "a", "p", "i" >>,
      << "a", "d", "m", "i", "n" >>, << "m", "a", "i", "l" >>,
      << "f", "t", "p" >>,
      << "l", "o", "c", "a", "l", "h", "o", "s", "t" >> }

\* the session is handling a Register whose subdomain normalizes to a
\* reserved name
HandlesReserved(s) ==
    /\ pc[s] = "handle"
    /\ cur[s].type = "register" /\ cur[s].payloadOK
    /\ Normalize(cur[s].sub) \in ReservedNames

\* C15 (as claimed): the handling of a Register for a reserved name prepares
\* the Error whose text is exactly "subdomain '<name>' is reserved", inserts
\* nothing in the registry and leaves the session as it was
C15_ReservedExactText ==
    [][ \A s \in Sessions :
          (HandlesReserved(s) /\ pc'[s] # pc[s])
          => /\ pending'[s] =
                  ErrorReply(Err("", "subdomain '%s' is reserved",
                                 Normalize(cur[s].sub), ""))
             /\ pc'[s] = "send"
             /\ registry' = registry
             /\ hsub'[s] = hsub[s]
             /\ htid'[s] = htid[s] ]_vars

\* C15 (amended): the handling of a Register for a reserved name prepares the
\* Error whose text is "invalid subdomain: subdomain '<name>' is reserved",
\* inserts nothing in the registry and leaves the session as it was; that
\* Error is the one frame written in reply unless the write fails
C15_ReservedWrappedText ==
    /\ [][ \A s \in Sessions :
             (HandlesReserved(s) /\ pc'[s] # pc[s])
             => /\ pending'[s] =
                     ErrorReply(Err("invalid subdomain: %w",
                                    "subdomain '%s' is reserved",
                                    Normalize(cur[s].sub), ""))
                /\ pc'[s] = "send"
                /\ registry' = registry
                /\ hsub'[s] = hsub[s]
                /\ htid'[s] = htid[s] ]_vars
    /\ [](\A s \in Sessions :
            ( /\ DecidedRegister(s) /\ pc[s] = "read" /\ cur[s].payloadOK
              /\ Normalize(cur[s].sub) \in ReservedNames )
            => /\ sent[s] = IF writeErr[s] THEN << >> ELSE << pending[s] >>
               /\ pending[s].error.wrap = "invalid subdomain: %w"
               /\ pending[s].error.text = "subdomain '%s' is reserved")

\* C15 witness: a session in Handshaking asked for "www", has been sent the
\* Error, still holds nothing, and the registry is empty
C15_Witness ==
    \E s \in Sessions :
        /\ cur[s] = Message("register", TRUE, << "w", "w", "w" >>)
        /\ pc[s] = "read"
        /\ sent[s] = << ErrorReply(Err("invalid subdomain: %w",
                                       "subdomain '%s' is reserved",
                                       << "w", "w", "w" >>, "")) >>
        /\ hsub[s] = NoLabel /\ htid[s] = 0
        /\ Count(registry) = 0
        /\ nframes = 1

\* C16: while the Success of a Register waits to be written and once it is
\* written, the registry maps the subdomain it reports to the tunnel of this
\* session with the tunnel id it reports, and the full_domain it reports is
\* that subdomain, ".", and the configured domain
C16_SuccessAfterInsert ==
    \A s \in Sessions :
        ( /\ cur[s].type = "register"
          /\ pending[s].type = "success"
          /\ \/ pc[s] = "send"
             \/ pc[s] = "read" /\ sent[s] = << pending[s] >> )
        => LET d == pending[s].data IN
           /\ Get(registry, d.Subdomain).exists
           /\ Get(registry, d.Subdomain).tunnel = Tunnel(d.TunnelID, d.Subdomain, s)
           /\ d.FullDomain = d.Subdomain \o << "." >> \o << "t", ".", "i", "o" >>

\* C16 witness: the Success for a generated subdomain is about to be written
\* by a session while the other session holds "a"
C16_Witness ==
    \E s \in Sessions :
        /\ pc[s] = "send"
        /\ cur[s] = Message("register", TRUE, << >>)
        /\ pending[s].type = "success"
        /\ pending[s].data.Subdomain = << "0", "0", "0", "0", "0", "0", "0", "a" >>
        /\ pending[s].data.FullDomain =
              << "0", "0", "0", "0", "0", "0", "0", "a", ".", "t", ".", "i", "o" >>
        /\ Count(registry) = 2
        /\ \E o \in Sessions \ {s} : Registered(o) /\ hsub[o] = << "a" >>

\* the message types handleMessage has a case for
KnownTypes == {"register", "unregister", "ping", "data"}

\* C17: the handling of a Data message prepares no reply and the handling of
\* a message of unknown type prepares the Error "unknown message type" with
\* that type; neither changes the registry or the session's subdomain and
\* tunnel id and the loop goes on; after a Data message nothing has been
\* written, after an unknown one exactly that Error (nothing when the write
\* fails)
C17_DataAndUnknown ==
    /\ [][ \A s \in Sessions :
             (pc[s] = "handle" /\ pc'[s] # pc[s] /\ cur[s].type \notin KnownTypes \ {"data"})
             => /\ registry' = registry
                /\ hsub'[s] = hsub[s]
                /\ htid'[s] = htid[s]
                /\ sent'[s] = sent[s]
                /\ IF cur[s].type = "data"
                   THEN pc'[s] = "read" /\ pending'[s] = pending[s]
                   ELSE /\ pc'[s] = "send"
                        /\ pending'[s] =
                             ErrorReply(Err("", "unknown message type: %s",
                                            NoLabel, cur[s].type)) ]_vars
    /\ [](\A s \in Sessions :
            /\ cur[s].type = "data" => sent[s] = << >>
            /\ cur[s].type \notin KnownTypes \cup {""} =>
                  /\ pc[s] \in {"handle", "send"} => sent[s] = << >>
                  /\ pc[s] \in {"read", "reading"} =>
                        sent[s] = IF writeErr[s] THEN << >>
                                  ELSE << ErrorReply(Err("", "unknown message type: %s",
                                                         NoLabel, cur[s].type)) >>)

\* C17 witness: a Registered session has been sent the Error for a message
\* of unknown type and still holds its subdomain, and a session in Handshaking
\* has handled a Data message and been sent nothing
C17_Witness ==
    \E s1, s2 \in Sessions :
        /\ Registered(s1) /\ Get(registry, hsub[s1]).tunnel.WSConn = s1
        /\ cur[s1].type = "bogus" /\ pc[s1] = "read"
        /\ sent[s1] = << ErrorReply(Err("", "unknown message type: %s", NoLabel, "bogus")) >>
        /\ Live(s2) /\ hsub[s2] = NoLabel
        /\ cur[s2].type = "data" /\ pc[s2] = "read"
        /\ sent[s2] = << >>

\* the Host header without its ":port"
HostName(host) ==
    IF \E i \in 1..Len(host) : host[i] = ":"
    THEN SubSeq(host, 1, (CHOOSE i \in 1..Len(host) :
                            host[i] = ":" /\ \A j \in 1..(i - 1) : host[j] # ":") - 1)
    ELSE host

\* the host name is a label followed by "." and the served domain
UnderDomain(name) ==
    /\ Len(name) > Len(Domain) + 1
    /\ SubSeq(name, Len(name) - Len(Domain), Len(name)) = << "." >> \o Domain

\* the label of a host name under the served domain
LabelOf(name) == SubSeq(name, 1, Len(name) - Len(Domain) - 1)

\* C18: a request whose host is a label under the served domain, handled
\* while the registry has no entry for that label, gets the response 404
\* "Tunnel not found for subdomain: <label>" from the HTTP layer and is done:
\* no connection is hijacked or closed, no tunnel is attached to the request,
\* nothing is written on any control channel and the registry stays as it was
C18_UnknownSubdomain404 ==
    [][ \A r \in Requests, host \in Hosts, hijack \in HijackResults :
          ( /\ handleProxy(r, host, hijack)
            /\ UnderDomain(HostName(host))
            /\ ~Get(registry, LabelOf(HostName(host))).exists )
          => /\ resp'[r] = Response(404, "Tunnel not found for subdomain: %s",
                                    LabelOf(HostName(host)), "http")
             /\ rpc'[r] = "responded"
             /\ rtun'[r] = NoTunnel
             /\ clientCloses' = clientCloses
             /\ wire' = wire
             /\ sent' = sent
             /\ registry' = registry ]_vars

\* C18 witness: while a session holds "a", a request for z.<domain> has been
\* answered 404 by the HTTP layer, and no control channel has carried a frame
\* for it
C18_Witness ==
    \E r \in Requests :
        /\ rpc[r] = "responded"
        /\ resp[r] = Response(404, "Tunnel not found for subdomain: %s", << "z" >>, "http")
        /\ clientCloses[r] = 0
        /\ \A s \in Sessions : wire[s] = << >>
        /\ Registered("s1") /\ Get(registry, << "a" >>).exists

\* C19 (as claimed): a request is looked up under label L exactly when its
\* host, without ":port", is L followed by "." and the served domain; every
\* other host, the bare domain included, gets 404 "Invalid hostname" from the
\* HTTP layer and no lookup; and two hosts that differ only in the port are
\* handled by the same steps
C19_HostRouting ==
    [][ \A r \in Requests, hijack \in HijackResults, host \in Hosts :
          /\ handleProxy(r, host, hijack)
             => IF UnderDomain(HostName(host))
                THEN /\ rsub'[r] = LabelOf(HostName(host))
                     /\ resp'[r].body # "Invalid hostname"
                ELSE /\ resp'[r] = Response(404, "Invalid hostname", NoLabel, "http")
                     /\ rpc'[r] = "responded"
                     /\ rsub'[r] = NoLabel
                     /\ rtun'[r] = NoTunnel
          /\ \A other \in Hosts :
                HostName(other) = HostName(host)
                => (handleProxy(r, host, hijack) <=> handleProxy(r, other, hijack)) ]_vars

\* C20 (as claimed): when r.Write on the tunnel connection fails, the
\* goroutine ends having written the response 502 "Bad Gateway" on the
\* hijacked stream
C20_WriteFailure502 ==
    [][ \A r \in Requests :
          (rpc[r] = "writeReq" /\ rpc'[r] = "finished")
          => resp'[r] = Response(502, "Bad Gateway", NoLabel, "raw") ]_vars

\* the request carries an upgrade indication: a websocket handshake
UpgradeIndication(req) == upgraderUpgrade(req)

C22_KeepaliveHolds ==
    \A s \in KeepaliveSessions :
        (~silent /\ ~writeErr[s] /\ now >= regAt + 120) =>
            /\ pingsSent >= 2
            /\ Registered(s)
            /\ Get(registry, hsub[s]).exists
            /\ Get(registry, hsub[s]).tunnel.WSConn = s

\* 120 seconds after the registration the client has answered two pings or
\* more and the session is registered
C22_Witness ==
    /\ ~silent
    /\ ~writeErr["s1"]
    /\ now >= regAt + 120
    /\ pingsSent >= 2
    /\ pongAt = NoPong
    /\ readDeadline >= now + pingPeriod
    /\ Registered("s1")

\* C23: the control-channel read fails with the deadline error and not
\* before the read deadline has passed, and once the client is silent the
\* session gets closed and its subdomain leaves the registry
C23_SilentClientClosed ==
    /\ [](\A s \in KeepaliveSessions :
              ~Live(s) => exitErr[s] = "deadline" /\ now >= readDeadline
                            /\ readDeadline >= pongWait)
    /\ \A s \in KeepaliveSessions :
          silent ~> (pc[s] = "closed" /\ ~Get(registry, << "a" >>).exists)

\* the client went silent after a pong, the deadline that pong had set has
\* passed and the session is closed and unregistered
C23_Witness ==
    /\ silent
    /\ pingsSent >= 2
    /\ readDeadline > pongWait
    /\ now >= readDeadline
    /\ pc["s1"] = "closed"
    /\ exitErr["s1"] = "deadline"
    /\ ~Get(registry, << "a" >>).exists

\* the value of a decimal digit
DigitVal(c) == CHOOSE v \in 0..9 : Digits[v + 1] = c

\* the positions of the dots of a name
DotsOf(name) == { i \in 1..Len(name) : name[i] = "." }

\* the components of a name with three dots
Component(name, k) ==
    LET cuts == DotsOf(name) \cup {0, Len(name) + 1}
        lo == CHOOSE i \in cuts : Cardinality({ j \in cuts : j < i }) = k - 1
        hi == CHOOSE i \in cuts : Cardinality({ j \in cuts : j < i }) = k
    IN SubSeq(name, lo + 1, hi - 1)

\* the number a component of up to three digits writes, 256 when it is none
RECURSIVE DecimalValue(_)
DecimalValue(part) ==
    IF part = << >> THEN 0
    ELSE DecimalValue(SubSeq(part, 1, Len(part) - 1)) * 10 + DigitVal(part[Len(part)])

Octet(part) ==
    IF Len(part) \in 1..3 /\ \A i \in 1..Len(part) : part[i] \in Range(Digits)
    THEN DecimalValue(part)
    ELSE 256

\* a literal IPv4 address: four numbers of 0..255 between dots
IsIPv4(name) ==
    /\ Cardinality(DotsOf(name)) = 3
    /\ \A k \in 1..4 : Octet(Component(name, k)) <= 255

\* a literal IPv6 address: hexadecimal groups between colons
IsIPv6(name) ==
    /\ Cardinality({ i \in 1..Len(name) : name[i] = ":" }) >= 2
    /\ \A i \in 1..Len(name) : name[i] \in Range(HexDigits) \cup {":"}

\* a loopback address: 127.0.0.0/8 or ::1
IsLoopback(name) ==
    \/ IsIPv4(name) /\ Octet(Component(name, 1)) = 127
    \/ name = << ":", ":", "1" >>

\* the names the policy has to refuse
MustRefuse(name) ==
    \/ name = << >>
    \/ name = << "l", "o", "c", "a", "l", "h", "o", "s", "t" >>
    \/ IsIPv4(name)
    \/ IsIPv6(name)
    \/ IsLoopback(name)

\* C24: every server name that is a literal IP address, empty, "localhost"
\* or a loopback address is refused by the host policy, and no certificate
\* is requested for a refused name
C24_HostPolicyRefuses ==
    \A i \in 1..Len(hostLog) :
        /\ MustRefuse(hostLog[i].host) => hostLog[i].err # NoErr
        /\ hostLog[i].err # NoErr => ~hostLog[i].acquired

\* the calls of Close made on the channel of session s
CloseCallsOn(s) == { i \in 1..Len(calls) : calls[i] = CloseCall(s) }

C26_GracefulShutdown ==
    /\ mainpc \in {"stopped", "exited"} => \A l \in Listeners : ~listening[l]
    /\ mainpc = "exited" =>
          \A s \in ShutdownSessions :
              /\ ~Live(s)
              /\ \A k \in DOMAIN registry : registry[k].WSConn # s

\* a DNS label: 1 to 63 characters, [a-z0-9] at both ends and [a-z0-9-]
\* between them
IsDNSLabel(n) ==
    /\ Len(n) \in 1..63
    /\ n[1] \in Range(LowerLetters) \cup Range(Digits)
    /\ n[Len(n)] \in Range(LowerLetters) \cup Range(Digits)
    /\ \A i \in 2..(Len(n) - 1) :
          n[i] \in Range(LowerLetters) \cup Range(Digits) \cup {"-"}

\* C27: validate(normalize(s)) succeeds exactly when normalize(s) is a DNS
\* label that is not reserved; lengths 1 and 63 are accepted and 64 is
\* rejected, "a" is accepted, "-a" and "a-" are rejected, and "AA" is
\* normalized to "aa" and accepted
C27_ValidateNormalized ==
    \A i \in 1..Len(checked) :
        LET e == checked[i]
            accepted == e.err = NoErr
        IN
        /\ accepted <=> (IsDNSLabel(e.normalized) /\ e.normalized \notin ReservedNames)
        /\ e.input = << "a" >> => accepted
        /\ e.input = Label63 => accepted
        /\ e.input = LongLabel => ~accepted
        /\ e.input \in { << "-", "a" >>, << "a", "-" >> } => ~accepted
        /\ e.input = << "A", "A" >> => e.normalized = << "a", "a" >> /\ accepted

\* "AA" has been normalized to "aa" and accepted
C27_Witness ==
    /\ checked # << >>
    /\ checked[1].input = << "A", "A" >>
    /\ checked[1].normalized = << "a", "a" >>
    /\ checked[1].err = NoErr

\* C28: the data-plane Read never reads the underlying channel: no request
\* is in a read of the channel of its own, and Connection.mu is held by the
\* control reader only
C28_OnlyControlReaderReads ==
    /\ \A r \in Requests : t2c[r] # "ublocked"
    /\ \A s \in Sessions : mu[s] \in {NoHolder, "ctl"}

\* C29: no text frame is taken off the channel by the data path, and every
\* text frame that holds a control message is handed to the session handler
\* by the step that reads it, before the next frame is read
C29_ControlFramesReachHandler ==
    [][\A f \in DataFrames :
          f.kind = "text" =>
              /\ \A r \in Requests : ~ConnectionReadFrame(r, f)
              /\ \A s \in Sessions :
                    ReadMessage(s, f) => pc'[s] = "handle" /\ cur'[s] = f.msg]_vars

\* the concatenation of the queued binary messages
RECURSIVE Flatten(_)
Flatten(q) == IF q = << >> THEN << >> ELSE Head(q) \o Flatten(Tail(q))

\* the bytes the channel of s has received and Read has not returned yet:
\* the rest of the frame being consumed, then the queued frames
Pending(s) ==
    SubSeq(readBuffer[s], readOffset[s] + 1, Len(readBuffer[s]))
        \o Flatten(binaryQueue[s])

\* the payload of a frame as the data path sees it
BinaryData(f) == IF f.kind = "binary" THEN f.data ELSE << >>

\* a whole number of payloads, one after the other
RECURSIVE IsPayloadStream(_)
IsPayloadStream(b) ==
    \/ b = << >>
    \/ \E d \in Payloads :
          /\ Len(b) >= Len(d)
          /\ SubSeq(b, 1, Len(d)) = d
          /\ IsPayloadStream(SubSeq(b, Len(d) + 1, Len(b)))

\* a sequence of bytes with which a stream of payloads starts
IsStreamPrefix(b) ==
    \E d \in Payloads :
        \E k \in 0..Len(d) : IsPayloadStream(b \o SubSeq(d, k + 1, Len(d)))

C31_SpliceReturns ==
    \A r \in DataRequests :
        (rpc[r] = "splice" /\ (c2t[r] = "done" \/ t2c[r] = "done"))
            ~> (rpc[r] = "finished" \/ connReadFails(rtun[r].WSConn))

C33_WriteFailureTearsDown ==
    \A s \in KeepaliveSessions :
        writeErr[s] ~> (pc[s] = "closed" /\ ~Get(registry, << "a" >>).exists)

\* C34: a binary frame pulled by the control reader is appended to the tail
\* of the binary queue, yields no control message and no error, and the loop
\* goes on to the next frame: the session stays in its receive loop and the
\* handler gets nothing
C34_BinaryFrameQueued ==
    [][\A s \in DataSessions, f \in DataFrames :
          (f.kind = "binary" /\ ReadMessage(s, f)) =>
              /\ binaryQueue'[s] = Append(binaryQueue[s], f.data)
              /\ pc'[s] = "read"
              /\ cur' = cur
              /\ exitErr' = exitErr
              /\ pending' = pending
              /\ sent' = sent
              /\ registry' = registry]_vars

\* the control reader has queued a binary frame behind another one and the
\* session is in its receive loop, registered
C34_Witness ==
    /\ Len(binaryQueue["s1"]) = 2
    /\ pc["s1"] = "read"
    /\ exitErr["s1"] = ""
    /\ Get(registry, << "a" >>).exists

\* C35: the frame writes on one control channel exclude each other: at most
\* one writer is inside c.conn.WriteMessage at any time, and the pieces on
\* the wire form whole frames, the header of a frame followed by the payload
\* of the same writer
C35_WritesSerialized ==
    /\ Cardinality({ w \in Writers : wpc[w] \in {"head", "body", "unlock"} }) <= 1
    /\ \A i \in 1..Len(stream) :
          IF i % 2 = 1
          THEN /\ stream[i].part = "head"
               /\ i < Len(stream) =>
                     /\ stream[i + 1].part = "body"
                     /\ stream[i + 1].writer = stream[i].writer
          ELSE stream[i].part = "body"

\* a text reply, a ping and a binary frame are on the wire, whole, and while
\* one writer was writing the others had called their write methods
C35_Witness ==
    /\ Len(stream) = 6
    /\ { stream[i].kind : i \in 1..Len(stream) } = {"text", "ping", "binary"}
    /\ \A w \in Writers : wpc[w] \in {"idle", "lock"}
    /\ \E w \in Writers : wpc[w] = "lock"

\* C39: once VirtualConnection.Close has returned, no piece of a binary
\* frame goes on the control channel through that virtual stream, whatever
\* the interleaving of the Close with a Write on the same stream
C39_NoFrameAfterClose ==
    \A i \in 1..Len(stream) : ~stream[i].closed

\* C36: the requests proxied on one session are isolated from each other:
\* when a request is routed to a session that has no other request in
\* flight, the session holds no binary frame and no unread remainder of
\* one from before (Read would deliver it to this request first), and a reader left
\* blocked by a request that has been closed takes no binary frame off the
\* channel while a later request is in flight on it
C36_RequestIsolation ==
    /\ [][\A r \in Requests :
             (/\ rpc[r] = "new"
              /\ rpc'[r] = "dial"
              /\ \A q \in Requests \ {r} : ~InFlight(q)) =>
                 /\ binaryQueue[rtun'[r].WSConn] = << >>
                 /\ readOffset[rtun'[r].WSConn] >= Len(readBuffer[rtun'[r].WSConn])]_vars
    /\ [][\A r \in Requests :
             (/\ vclosed[r]
              /\ t2c[r] = "ublocked"
              /\ \E q \in Requests \ {r} :
                    rpc[q] = "splice" /\ rtun[q].WSConn = rtun[r].WSConn)
                 => t2c'[r] # "cwrite"]_vars

\* C37: a session only removes its own registry entry: an entry is never
\* changed, and the step that removes the entry of a session is a step of
\* that session, its handleUnregister or the cleanup of its HandleMessages,
\* taken while the session holds the entry's subdomain
C37_OnlyOwnerRemoves ==
    [][\A k \in DOMAIN registry :
          IF k \in DOMAIN registry'
          THEN registry'[k] = registry[k]
          ELSE /\ hsub[registry[k].WSConn] = k
               /\ pc[registry[k].WSConn] \in {"handle", "cleanup"}
               /\ pc'[registry[k].WSConn] \in {"send", "returned"}]_vars

\* C37 witness: s1 has unregistered "a", s2 has registered "a" afterwards,
\* and s1 has disconnected since: the entry of s2 is still there
C37_Witness ==
    /\ pc["s1"] = "closed"
    /\ cur["s1"].type = "unregister"
    /\ pending["s1"] = SuccessReply(NoData)
    /\ sel["s1"] = << "a" >>
    /\ hsub["s1"] = NoLabel
    /\ Registered("s2")
    /\ hsub["s2"] = << "a" >>
    /\ Get(registry, << "a" >>).exists
    /\ Get(registry, << "a" >>).tunnel.WSConn = "s2"

\* C38: Register with an empty subdomain tries one generated label: when the
\* label is in the registry already, the step that calls Registry.Register
\* prepares an Error and ends the handling of the message, and it changes
\* neither the registry nor the subdomain and tunnel id of the session
C38_NoRetryOfGenerated ==
    [][\A s \in Sessions :
          (/\ pc[s] = "register"
           /\ pc'[s] # "register"
           /\ cur[s].sub = << >>
           /\ sel[s] \in DOMAIN registry)
          => /\ pc'[s] = "send"
             /\ pending'[s].type = "error"
             /\ pending'[s].error.wrap = "failed to register tunnel: %w"
             /\ sel'[s] = sel[s]
             /\ registry' = registry
             /\ hsub'[s] = hsub[s]
             /\ htid'[s] = htid[s]]_vars

\* C38 witness: a session in Handshaking got the Error for a generated label
\* that another session holds
C38_Witness ==
    \E s1, s2 \in Sessions :
        /\ s1 # s2
        /\ pc[s1] = "send"
        /\ cur[s1] = Message("register", TRUE, << >>)
        /\ pending[s1].type = "error"
        /\ pending[s1].error.sub \in Generate
        /\ hsub[s1] = NoLabel
        /\ Registered(s2)
        /\ hsub[s2] = pending[s1].error.sub
        /\ Get(registry, hsub[s2]).tunnel.WSConn = s2

\* C40: once handleConnection has returned (the ticker stopped, the conn
\* closed), the ping routine of the session eventually returns
C40_PingRoutineEnds ==
    \A s \in KeepaliveSessions : (pc[s] = "closed") ~> (pinger = "returned")

====
